---- MODULE Spec2Model ----
(***************************************************************************)
(* The tolerant JSON repair engine of src/lib/json-fixer.ts.               *)
(*                                                                         *)
(* Texts are TLA+ strings.  The source indexes a text from 0; the model    *)
(* indexes from 1, so source index i is model position i + 1 and the       *)
(* source test "i < input.length" reads "i <= Len(input)" here.            *)
(***************************************************************************)
EXTENDS Integers, Sequences, FiniteSets, TLC

(***************************************************************************)
(* Characters                                                              *)
(***************************************************************************)
\* input[i]: the character at position i, the empty text (undefined) outside
At(s, i) == IF i >= 1 /\ i <= Len(s) THEN SubSeq(s, i, i) ELSE ""

\* the characters at positions a..b that exist (String.prototype.slice)
Slice(s, a, b) == SubSeq(s, a, IF b <= Len(s) THEN b ELSE Len(s))

\* the rest of a text from position i on
From(s, i) == SubSeq(s, i, Len(s))

CharsOf(s) == {SubSeq(s, i, i) : i \in 1..Len(s)}

Digits == CharsOf("0123456789")

Digits19 == CharsOf("123456789")

HexDigits == CharsOf("0123456789abcdefABCDEF")

Letters == CharsOf("abcdefghijklmnopqrstuvwxyzABCDEFGHIJKLMNOPQRSTUVWXYZ")

\* [a-zA-Z_$] and [a-zA-Z0-9_$] of the key regex, [a-zA-Z0-9_] of the
\* literal lookaheads
IdStart == Letters \cup {"_", "$"}

IdPart == IdStart \cup Digits

WordChars == Letters \cup Digits \cup {"_"}

\* the four whitespace characters of the JSON grammar
JsonWs == {" ", "\t", "\n", "\r"}

\* ECMAScript WhiteSpace + LineTerminator (String.prototype.trim, regex \s),
\* restricted to the characters a TLA+ string literal can hold
JsWs == {" ", "\t", "\n", "\r", "\f"}

\* printable ASCII, code units 32..95 and 97..126 in order (a TLA+ string
\* literal cannot hold the grave accent, code unit 96)
AsciiLo == " !\"#$%&'()*+,-./0123456789:;<=>?@ABCDEFGHIJKLMNOPQRSTUVWXYZ[\\]^_"

AsciiHi == "abcdefghijklmnopqrstuvwxyz{|}~"

\* String.fromCharCode for the code units the model's texts can hold
fromCharCode(n) ==
  CASE n >= 32 /\ n <= 95 -> At(AsciiLo, n - 31)
    [] n >= 97 /\ n <= 126 -> At(AsciiHi, n - 96)
    [] n = 9 -> "\t"
    [] n = 10 -> "\n"
    [] n = 12 -> "\f"
    [] n = 13 -> "\r"

\* value of one hexadecimal digit
HexVal(c) ==
  CASE c \in Digits -> CHOOSE n \in 0..9 : At("0123456789", n + 1) = c
    [] c \in CharsOf("abcdef") -> 10 + (CHOOSE n \in 0..5 : At("abcdef", n + 1) = c)
    [] c \in CharsOf("ABCDEF") -> 10 + (CHOOSE n \in 0..5 : At("ABCDEF", n + 1) = c)

\* String.prototype.trim
RECURSIVE TrimStart(_)
TrimStart(s) ==
  IF Len(s) > 0 /\ At(s, 1) \in JsWs THEN TrimStart(SubSeq(s, 2, Len(s))) ELSE s

RECURSIVE TrimEnd(_)
TrimEnd(s) ==
  IF Len(s) > 0 /\ At(s, Len(s)) \in JsWs THEN TrimEnd(SubSeq(s, 1, Len(s) - 1)) ELSE s

trim(s) == TrimEnd(TrimStart(s))

startsWith(s, c) == Len(s) > 0 /\ At(s, 1) = c

endsWith(s, c) == Len(s) > 0 /\ At(s, Len(s)) = c

(***************************************************************************)
(* JSON values.  A number is the exact decimal m * 10^e with m not         *)
(* divisible by 10 (zero is m = 0, e = 0); an object is its sequence of    *)
(* members in property-enumeration order.                                  *)
(***************************************************************************)
JNull == [t |-> "null"]

JBool(b) == [t |-> "bool", b |-> b]

JNum(m, e) == [t |-> "num", m |-> m, e |-> e]

\* the Numbers Infinity and -Infinity
JInfinity(neg) == [t |-> "inf", neg |-> neg]

JStr(s) == [t |-> "str", s |-> s]

JArr(items) == [t |-> "arr", items |-> items]

JObj(members) == [t |-> "obj", members |-> members]

Member(k, v) == [k |-> k, v |-> v]

\* a canonical array index: "0" or a digit string without leading zero
IsIndexKey(k) ==
  /\ Len(k) > 0
  /\ Len(k) <= 9
  /\ \A i \in 1..Len(k) : At(k, i) \in Digits
  /\ (Len(k) > 1 => At(k, 1) # "0")

RECURSIVE DecValue(_)
DecValue(ds) ==
  IF Len(ds) = 0 THEN 0
  ELSE 10 * DecValue(SubSeq(ds, 1, Len(ds) - 1)) + HexVal(At(ds, Len(ds)))

\* CreateDataProperty on an ordinary object: an existing key keeps its place
\* and takes the new value; a new index key goes among the index keys in
\* ascending order, any other new key goes last.
ObjSet(members, k, v) ==
  IF \E i \in 1..Len(members) : members[i].k = k
  THEN [i \in 1..Len(members) |->
          IF members[i].k = k THEN Member(k, v) ELSE members[i]]
  ELSE IF IsIndexKey(k)
  THEN LET before == {i \in 1..Len(members) :
                        IsIndexKey(members[i].k) /\ DecValue(members[i].k) < DecValue(k)}
           n == Cardinality(before)
       IN SubSeq(members, 1, n) \o <<Member(k, v)>> \o SubSeq(members, n + 1, Len(members))
  ELSE Append(members, Member(k, v))

(***************************************************************************)
(* JSON.parse: a strict parser of the JSON grammar (ECMA-404).  A result   *)
(* is [ok, v, i]: whether a value was read, the value, and the position    *)
(* after it.                                                               *)
(***************************************************************************)
Fail == [ok |-> FALSE, v |-> JNull, i |-> 0]

Ok(v, i) == [ok |-> TRUE, v |-> v, i |-> i]

\* the first position from i on that holds no character of the set
RECURSIVE SkipSet(_, _, _)
SkipSet(s, i, set) == IF At(s, i) \in set THEN SkipSet(s, i + 1, set) ELSE i

\* the value of four hexadecimal digits, or -1
Hex4(h) ==
  IF Len(h) = 4 /\ \A k \in 1..4 : At(h, k) \in HexDigits
  THEN 4096 * HexVal(At(h, 1)) + 256 * HexVal(At(h, 2)) + 16 * HexVal(At(h, 3)) + HexVal(At(h, 4))
  ELSE -1

\* the body of a string literal from position i (after the opening quote)
RECURSIVE ParseStringBody(_, _, _)
ParseStringBody(s, i, acc) ==
  LET c == At(s, i)
      n == At(s, i + 1)
  IN CASE c = "" -> Fail
       [] c = "\"" -> Ok(JStr(acc), i + 1)
       [] c \in {"\t", "\n", "\r", "\f"} -> Fail
       [] c = "\\" /\ n \in {"\"", "\\", "/"} -> ParseStringBody(s, i + 2, acc \o n)
       [] c = "\\" /\ n = "n" -> ParseStringBody(s, i + 2, acc \o "\n")
       [] c = "\\" /\ n = "t" -> ParseStringBody(s, i + 2, acc \o "\t")
       [] c = "\\" /\ n = "r" -> ParseStringBody(s, i + 2, acc \o "\r")
       [] c = "\\" /\ n = "f" -> ParseStringBody(s, i + 2, acc \o "\f")
       [] c = "\\" /\ n = "b" -> ParseStringBody(s, i + 2, acc \o fromCharCode(8))
       [] c = "\\" /\ n = "u" /\ Hex4(Slice(s, i + 2, i + 5)) >= 0 ->
            ParseStringBody(s, i + 6, acc \o fromCharCode(Hex4(Slice(s, i + 2, i + 5))))
       [] c = "\\" -> Fail
       [] OTHER -> ParseStringBody(s, i + 1, acc \o c)

\* m * 10^e without trailing zeros in m
RECURSIVE Normalize(_, _)
Normalize(m, e) ==
  IF m = 0 THEN JNum(0, 0)
  ELSE IF m % 10 = 0 THEN Normalize(m \div 10, e + 1)
  ELSE JNum(m, e)

\* the decimal exponent of m * 10^e written d.ddd * 10^x
Magnitude(num) == Len(ToString(num.m)) + num.e - 1

\* the Number a literal denotes: beyond the range of a double it is Infinity
\* (10^309 and more) or zero (less than 10^-324); the model's texts keep
\* clear of the band between the largest double and 10^309
Ranged(neg, num) ==
  IF num.m # 0 /\ Magnitude(num) >= 309 THEN JInfinity(neg)
  ELSE IF num.m # 0 /\ Magnitude(num) < -324 THEN JNum(0, 0)
  ELSE JNum(IF neg THEN 0 - num.m ELSE num.m, num.e)

\* how many zeros the digits end in
RECURSIVE TrailingZeros(_)
TrailingZeros(ds) ==
  IF Len(ds) > 0 /\ At(ds, Len(ds)) = "0"
  THEN 1 + TrailingZeros(SubSeq(ds, 1, Len(ds) - 1))
  ELSE 0

\* the digits ds times 10^exp, the zeros at the end of ds going to the exponent
Mantissa(ds, exp, zeros) ==
  Normalize(DecValue(SubSeq(ds, 1, Len(ds) - zeros)), exp + zeros)

\* a number literal: -? int frac? exp?  The literal starts at i, its digits
\* at i0; the integer part ends before i1, the fraction before i2, and the
\* exponent's digits run from i3 to before i4.
NumDigits(neg, ds, exp, end) ==
  Ok(Ranged(neg, Mantissa(ds, exp, TrailingZeros(ds))), end)

NumValue(s, i, i0, i1, i2, exp, end) ==
  NumDigits(At(s, i) = "-",
            SubSeq(s, i0, i1 - 1) \o SubSeq(s, i1 + 1, i2 - 1),
            exp - (IF i2 > i1 THEN i2 - i1 - 1 ELSE 0),
            end)

NumExpDigits(s, i, i0, i1, i2, i3, i4) ==
  NumValue(s, i, i0, i1, i2,
           (IF At(s, i2 + 1) = "-" THEN -1 ELSE 1) * DecValue(SubSeq(s, i3, i4 - 1)), i4)

NumExpSign(s, i, i0, i1, i2, i3) ==
  IF At(s, i3) \in Digits
  THEN NumExpDigits(s, i, i0, i1, i2, i3, SkipSet(s, i3, Digits))
  ELSE Fail

NumExp(s, i, i0, i1, i2) ==
  IF At(s, i2) \in {"e", "E"}
  THEN NumExpSign(s, i, i0, i1, i2, IF At(s, i2 + 1) \in {"+", "-"} THEN i2 + 2 ELSE i2 + 1)
  ELSE NumValue(s, i, i0, i1, i2, 0, i2)

NumFrac(s, i, i0, i1) ==
  IF i1 = i0 THEN Fail
  ELSE IF At(s, i1) # "." THEN NumExp(s, i, i0, i1, i1)
  ELSE IF At(s, i1 + 1) \in Digits THEN NumExp(s, i, i0, i1, SkipSet(s, i1 + 1, Digits))
  ELSE Fail

NumInt(s, i, i0) ==
  NumFrac(s, i, i0,
          IF At(s, i0) = "0" THEN i0 + 1
          ELSE IF At(s, i0) \in Digits19 THEN SkipSet(s, i0, Digits)
          ELSE i0)

ParseNumber(s, i) == NumInt(s, i, IF At(s, i) = "-" THEN i + 1 ELSE i)

RECURSIVE ParseValue(_, _)
RECURSIVE ParseItems(_, _, _)
RECURSIVE ItemRead(_, _, _)
RECURSIVE ItemEnd(_, _, _)
RECURSIVE ParseMembers(_, _, _)
RECURSIVE KeyRead(_, _, _)
RECURSIVE MemberRead(_, _, _, _)
RECURSIVE MemberEnd(_, _, _)

\* the elements of an array from position i (a value is due), read so far acc
ParseItems(s, i, acc) == ItemRead(s, ParseValue(s, SkipSet(s, i, JsonWs)), acc)

\* after the element r: the separator is due
ItemRead(s, r, acc) ==
  IF r.ok THEN ItemEnd(s, SkipSet(s, r.i, JsonWs), Append(acc, r.v)) ELSE Fail

ItemEnd(s, j, acc) ==
  IF At(s, j) = "," THEN ParseItems(s, j + 1, acc)
  ELSE IF At(s, j) = "]" THEN Ok(JArr(acc), j + 1)
  ELSE Fail

\* the members of an object from position i (a key is due), read so far acc
ParseMembers(s, i, acc) ==
  IF At(s, SkipSet(s, i, JsonWs)) = "\""
  THEN KeyRead(s, ParseStringBody(s, SkipSet(s, i, JsonWs) + 1, ""), acc)
  ELSE Fail

\* after the key: the colon and the value are due
KeyRead(s, key, acc) ==
  IF key.ok /\ At(s, SkipSet(s, key.i, JsonWs)) = ":"
  THEN MemberRead(s, key.v.s,
                  ParseValue(s, SkipSet(s, SkipSet(s, key.i, JsonWs) + 1, JsonWs)), acc)
  ELSE Fail

\* after the value r of the key k: the separator is due
MemberRead(s, k, r, acc) ==
  IF r.ok THEN MemberEnd(s, SkipSet(s, r.i, JsonWs), ObjSet(acc, k, r.v)) ELSE Fail

MemberEnd(s, j, acc) ==
  IF At(s, j) = "," THEN ParseMembers(s, j + 1, acc)
  ELSE IF At(s, j) = "}" THEN Ok(JObj(acc), j + 1)
  ELSE Fail

\* one JSON value at position i
ParseValue(s, i) ==
  LET c == At(s, i)
  IN CASE c = "{" ->
            IF At(s, SkipSet(s, i + 1, JsonWs)) = "}"
            THEN Ok(JObj(<<>>), SkipSet(s, i + 1, JsonWs) + 1)
            ELSE ParseMembers(s, i + 1, <<>>)
       [] c = "[" ->
            IF At(s, SkipSet(s, i + 1, JsonWs)) = "]"
            THEN Ok(JArr(<<>>), SkipSet(s, i + 1, JsonWs) + 1)
            ELSE ParseItems(s, i + 1, <<>>)
       [] c = "\"" -> ParseStringBody(s, i + 1, "")
       [] c = "-" \/ c \in Digits -> ParseNumber(s, i)
       [] c = "t" -> IF Slice(s, i, i + 3) = "true" THEN Ok(JBool(TRUE), i + 4) ELSE Fail
       [] c = "f" -> IF Slice(s, i, i + 4) = "false" THEN Ok(JBool(FALSE), i + 5) ELSE Fail
       [] c = "n" -> IF Slice(s, i, i + 3) = "null" THEN Ok(JNull, i + 4) ELSE Fail
       [] OTHER -> Fail

\* JSON.parse(s): the whole text must be one value between JSON whitespace
JSONparse(s) ==
  LET r == ParseValue(s, SkipSet(s, 1, JsonWs))
  IN IF r.ok /\ SkipSet(s, r.i, JsonWs) = Len(s) + 1 THEN r ELSE Fail

(***************************************************************************)
(* JSON.stringify(value, null, indent)                                     *)
(***************************************************************************)
RECURSIVE Repeat(_, _)
Repeat(c, n) == IF n <= 0 THEN "" ELSE c \o Repeat(c, n - 1)

\* Number::toString of m * 10^e (ECMA-262 6.1.6.1.20)
NumberToString(m, e) ==
  LET digits == ToString(IF m < 0 THEN 0 - m ELSE m)
      k == Len(digits)
      n == k + e
      sign == IF m < 0 THEN "-" ELSE ""
      x == n - 1
      expo == (IF x < 0 THEN "e-" ELSE "e+") \o ToString(IF x < 0 THEN 0 - x ELSE x)
  IN CASE m = 0 -> "0"
       [] m # 0 /\ k <= n /\ n <= 21 -> sign \o digits \o Repeat("0", n - k)
       [] m # 0 /\ 0 < n /\ n < k -> sign \o SubSeq(digits, 1, n) \o "." \o SubSeq(digits, n + 1, k)
       [] m # 0 /\ -6 < n /\ n <= 0 -> sign \o "0." \o Repeat("0", 0 - n) \o digits
       [] m # 0 /\ (n > 21 \/ n <= -6) /\ k = 1 -> sign \o digits \o expo
       [] OTHER -> sign \o SubSeq(digits, 1, 1) \o "." \o SubSeq(digits, 2, k) \o expo

\* QuoteJSONString: the characters of a string literal's body
RECURSIVE QuoteBody(_)
QuoteBody(str) ==
  IF Len(str) = 0 THEN ""
  ELSE LET c == At(str, 1)
           q == CASE c = "\"" -> "\\\""
                  [] c = "\\" -> "\\\\"
                  [] c = "\n" -> "\\n"
                  [] c = "\r" -> "\\r"
                  [] c = "\t" -> "\\t"
                  [] c = "\f" -> "\\f"
                  [] OTHER -> c
       IN q \o QuoteBody(From(str, 2))

QuoteJSONString(str) == "\"" \o QuoteBody(str) \o "\""

RECURSIVE Stringify(_, _, _)
RECURSIVE JoinItems(_, _, _, _)
RECURSIVE JoinMembers(_, _, _, _)

\* the elements from the k-th on, each on its own line when indent > 0
JoinItems(items, k, indent, level) ==
  IF k > Len(items) THEN ""
  ELSE (IF k > 1 THEN "," ELSE "")
       \o (IF indent > 0 THEN "\n" \o Repeat(" ", indent * level) ELSE "")
       \o Stringify(items[k], indent, level)
       \o JoinItems(items, k + 1, indent, level)

JoinMembers(members, k, indent, level) ==
  IF k > Len(members) THEN ""
  ELSE (IF k > 1 THEN "," ELSE "")
       \o (IF indent > 0 THEN "\n" \o Repeat(" ", indent * level) ELSE "")
       \o QuoteJSONString(members[k].k)
       \o (IF indent > 0 THEN ": " ELSE ":")
       \o Stringify(members[k].v, indent, level)
       \o JoinMembers(members, k + 1, indent, level)

\* SerializeJSONProperty at nesting depth level
Stringify(v, indent, level) ==
  CASE v.t = "null" -> "null"
    [] v.t = "bool" -> IF v.b THEN "true" ELSE "false"
    [] v.t = "num" -> NumberToString(v.m, v.e)
    [] v.t = "inf" -> "null"
    [] v.t = "str" -> QuoteJSONString(v.s)
    [] v.t = "arr" ->
         IF Len(v.items) = 0 THEN "[]"
         ELSE "[" \o JoinItems(v.items, 1, indent, level + 1)
              \o (IF indent > 0 THEN "\n" \o Repeat(" ", indent * level) ELSE "") \o "]"
    [] v.t = "obj" ->
         IF Len(v.members) = 0 THEN "{}"
         ELSE "{" \o JoinMembers(v.members, 1, indent, level + 1)
              \o (IF indent > 0 THEN "\n" \o Repeat(" ", indent * level) ELSE "") \o "}"

\* the gap is at most ten spaces, and none for an indent below 1
JSONstringify(v, indent) ==
  Stringify(v, IF indent > 10 THEN 10 ELSE IF indent < 1 THEN 0 ELSE indent, 0)

(***************************************************************************)
(* The string scanners                                                     *)
(***************************************************************************)
\* a scanner's result: the text it emits and the position after what it read
Scan(str, i) == [str |-> str, i |-> i]

\* the loop of readDoubleQuotedString at position i with result so far
RECURSIVE ReadDoubleLoop(_, _, _)
ReadDoubleLoop(input, i, result) ==
  IF i > Len(input) THEN Scan(result, i)
  ELSE LET c == At(input, i)
       IN IF c = "\\"
          THEN IF i + 1 <= Len(input)
               THEN ReadDoubleLoop(input, i + 2, result \o c \o At(input, i + 1))
               ELSE ReadDoubleLoop(input, i + 1, result \o c)
          ELSE IF c = "\""
          THEN Scan(result \o c, i + 1)
          ELSE ReadDoubleLoop(input, i + 1, result \o c)

\* the escape is copied without looking whether a character follows
RECURSIVE ReadDoubleUnguardedLoop(_, _, _)
ReadDoubleUnguardedLoop(input, i, result) ==
  IF i > Len(input) THEN Scan(result, i)
  ELSE IF At(input, i) = "\\"
  THEN ReadDoubleUnguardedLoop(input, i + 2, result \o At(input, i) \o At(input, i + 1))
  ELSE IF At(input, i) = "\""
  THEN Scan(result \o At(input, i), i + 1)
  ELSE ReadDoubleUnguardedLoop(input, i + 1, result \o At(input, i))

readDoubleQuotedStringUnguarded(input, start) ==
  ReadDoubleUnguardedLoop(input, start + 1, "\"")

readDoubleQuotedString(input, start) == ReadDoubleLoop(input, start + 1, "\"")

\* the code unit of a character of the model's texts
CodeUnits == (32..95) \cup (97..126) \cup {9, 10, 12, 13}

charCodeAt == [c \in {fromCharCode(n) : n \in CodeUnits} |->
                 CHOOSE n \in CodeUnits : fromCharCode(n) = c]

HexDigitOf(n) == At("0123456789abcdef", n + 1)

\* code.toString(16).padStart(4, "0") for a code unit below 256
Hex4Of(code) == "00" \o HexDigitOf(code \div 16) \o HexDigitOf(code % 16)

\* the double quote is copied as it stands
RECURSIVE escapeForJsonNoQuote(_)
escapeForJsonNoQuote(str) ==
  IF Len(str) = 0 THEN ""
  ELSE (CASE At(str, 1) = "\\" -> "\\\\"
          [] At(str, 1) = "\n" -> "\\n"
          [] At(str, 1) = "\r" -> "\\r"
          [] At(str, 1) = "\t" -> "\\t"
          [] At(str, 1) = "\f" -> "\\f"
          [] OTHER -> At(str, 1)) \o escapeForJsonNoQuote(From(str, 2))

RECURSIVE escapeForJson(_)
escapeForJson(str) ==
  IF Len(str) = 0 THEN ""
  ELSE LET ch == At(str, 1)
           out == CASE ch = "\\" -> "\\\\"
                    [] ch = "\"" -> "\\\""
                    [] ch = "\n" -> "\\n"
                    [] ch = "\r" -> "\\r"
                    [] ch = "\t" -> "\\t"
                    [] ch = "\f" -> "\\f"
                    [] OTHER -> IF charCodeAt[ch] < 32 THEN "\\u" \o Hex4Of(charCodeAt[ch]) ELSE ch
       IN out \o escapeForJson(From(str, 2))

\* the value of the longest run of hexadecimal digits that starts a text
RECURSIVE HexRun(_, _)
HexRun(h, acc) ==
  IF Len(h) > 0 /\ At(h, 1) \in HexDigits
  THEN HexRun(From(h, 2), 16 * acc + HexVal(At(h, 1)))
  ELSE acc

\* parseInt(h, 16): leading white space, a sign and a 0x prefix are skipped,
\* then the longest run of hexadecimal digits is read; none is NaN
parseInt16(h) ==
  LET h1 == TrimStart(h)
      neg == startsWith(h1, "-")
      h2 == IF neg \/ startsWith(h1, "+") THEN From(h1, 2) ELSE h1
      h3 == IF Len(h2) >= 2 /\ SubSeq(h2, 1, 2) \in {"0x", "0X"} THEN From(h2, 3) ELSE h2
      n == HexRun(h3, 0)
  IN IF Len(h3) = 0 \/ At(h3, 1) \notin HexDigits
     THEN [nan |-> TRUE, n |-> 0]
     ELSE [nan |-> FALSE, n |-> IF neg THEN 0 - n ELSE n]

\* the loop of readSingleQuotedString at position i with content so far
RECURSIVE ReadSingleLoop(_, _, _)
ReadSingleLoop(input, i, content) ==
  IF i > Len(input) THEN Scan(content, i)
  ELSE LET c == At(input, i)
           nextChar == At(input, i + 1)
           hex2 == parseInt16(Slice(input, i + 2, i + 3))
           hex4 == parseInt16(Slice(input, i + 2, i + 5))
       IN IF c = "\\"
          THEN IF i + 1 <= Len(input)
               THEN CASE nextChar \in {"'", "\"", "\\"} -> ReadSingleLoop(input, i + 2, content \o nextChar)
                      [] nextChar = "n" -> ReadSingleLoop(input, i + 2, content \o "\n")
                      [] nextChar = "t" -> ReadSingleLoop(input, i + 2, content \o "\t")
                      [] nextChar = "r" -> ReadSingleLoop(input, i + 2, content \o "\r")
                      [] nextChar = "b" -> ReadSingleLoop(input, i + 2, content \o fromCharCode(8))
                      [] nextChar = "f" -> ReadSingleLoop(input, i + 2, content \o "\f")
                      [] nextChar = "x" /\ i + 3 <= Len(input) /\ ~hex2.nan ->
                           ReadSingleLoop(input, i + 4, content \o fromCharCode(hex2.n % 65536))
                      [] nextChar = "u" /\ i + 5 <= Len(input) /\ ~hex4.nan ->
                           ReadSingleLoop(input, i + 6, content \o fromCharCode(hex4.n % 65536))
                      [] OTHER -> ReadSingleLoop(input, i + 2, content \o nextChar)
               ELSE ReadSingleLoop(input, i + 1, content)
          ELSE IF c = "'"
          THEN Scan(content, i + 1)
          ELSE ReadSingleLoop(input, i + 1, content \o c)

readSingleQuotedString(input, start) ==
  LET r == ReadSingleLoop(input, start + 1, "")
  IN Scan("\"" \o escapeForJson(r.str) \o "\"", r.i)

(***************************************************************************)
(* The text stages                                                         *)
(***************************************************************************)
\* /^None(?![a-zA-Z0-9_])/ and its like on input.slice(i)
LiteralAt(input, i, word) ==
  /\ Slice(input, i, i + Len(word) - 1) = word
  /\ At(input, i + Len(word)) \notin WordChars

\* the loop of convertPythonToJson at position i with result so far
RECURSIVE ConvertLoop(_, _, _)
ConvertLoop(input, i, result) ==
  IF i > Len(input) THEN result
  ELSE LET char == At(input, i)
           dq == readDoubleQuotedString(input, i)
           sq == readSingleQuotedString(input, i)
       IN CASE char = "\"" -> ConvertLoop(input, dq.i, result \o dq.str)
            [] char = "'" -> ConvertLoop(input, sq.i, result \o sq.str)
            [] char \notin {"\"", "'"} /\ LiteralAt(input, i, "None") ->
                 ConvertLoop(input, i + 4, result \o "null")
            [] char \notin {"\"", "'"} /\ LiteralAt(input, i, "True") ->
                 ConvertLoop(input, i + 4, result \o "true")
            [] char \notin {"\"", "'"} /\ LiteralAt(input, i, "False") ->
                 ConvertLoop(input, i + 5, result \o "false")
            [] OTHER -> ConvertLoop(input, i + 1, result \o char)

convertPythonToJson(input) == ConvertLoop(input, 1, "")

\* removeComments' inner loop over a single-quoted string, after its opening
\* quote, up to (not including) the closing quote
RECURSIVE SkipSingleLoop(_, _, _)
SkipSingleLoop(input, i, result) ==
  IF i <= Len(input) /\ At(input, i) # "'"
  THEN IF At(input, i) = "\\" /\ i + 1 <= Len(input)
       THEN SkipSingleLoop(input, i + 2, result \o At(input, i) \o At(input, i + 1))
       ELSE SkipSingleLoop(input, i + 1, result \o At(input, i))
  ELSE Scan(result, i)

\* removeComments' inner loop over a line comment: the position of the next
\* newline, or past the end
RECURSIVE LineCommentEnd(_, _)
LineCommentEnd(input, i) ==
  IF i <= Len(input) /\ At(input, i) # "\n" THEN LineCommentEnd(input, i + 1) ELSE i

\* removeComments' inner loop over a block comment: the position after the
\* closing "*/"; the loop stops one short of the end when none is found
RECURSIVE BlockCommentEnd(_, _)
BlockCommentEnd(input, i) ==
  IF i < Len(input)
  THEN IF At(input, i) = "*" /\ At(input, i + 1) = "/" THEN i + 2
       ELSE BlockCommentEnd(input, i + 1)
  ELSE i

\* the loop of removeComments at position i with result so far
RECURSIVE RemoveLoop(_, _, _)
RemoveLoop(input, i, result) ==
  IF i > Len(input) THEN result
  ELSE LET c == At(input, i)
           dq == readDoubleQuotedString(input, i)
           sq == SkipSingleLoop(input, i + 1, result \o c)
       IN CASE c = "\"" -> RemoveLoop(input, dq.i, result \o dq.str)
            [] c = "'" ->
                 IF sq.i <= Len(input)
                 THEN RemoveLoop(input, sq.i + 1, sq.str \o At(input, sq.i))
                 ELSE RemoveLoop(input, sq.i, sq.str)
            [] c = "/" /\ i + 1 <= Len(input) /\ At(input, i + 1) = "/" ->
                 RemoveLoop(input, LineCommentEnd(input, i + 2), result)
            [] c = "/" /\ i + 1 <= Len(input) /\ At(input, i + 1) = "*" ->
                 RemoveLoop(input, BlockCommentEnd(input, i + 2), result)
            [] OTHER -> RemoveLoop(input, i + 1, result \o c)

\* removal by /\/\/.*$/gm and /\/\*[\s\S]*?\*\//g, blind to strings
RECURSIVE DropLineComments(_, _, _)
DropLineComments(input, i, result) ==
  IF i > Len(input) THEN result
  ELSE IF At(input, i) = "/" /\ At(input, i + 1) = "/"
  THEN DropLineComments(input, SkipSet(input, i, CharsOf(AsciiLo \o AsciiHi) \cup {"\t", "\f"}), result)
  ELSE DropLineComments(input, i + 1, result \o At(input, i))

RECURSIVE DropBlockComments(_, _, _)
DropBlockComments(input, i, result) ==
  IF i > Len(input) THEN result
  ELSE LET ends == {j \in (i + 2)..(Len(input) - 1) : At(input, j) = "*" /\ At(input, j + 1) = "/"}
       IN IF At(input, i) = "/" /\ At(input, i + 1) = "*" /\ ends # {}
          THEN DropBlockComments(input, (CHOOSE j \in ends : \A k \in ends : j <= k) + 2, result)
          ELSE DropBlockComments(input, i + 1, result \o At(input, i))

removeCommentsByRegex(input) == DropBlockComments(DropLineComments(input, 1, ""), 1, "")

removeComments(input) == RemoveLoop(input, 1, "")

\* String.prototype.replace with /,(\s*X)/g and "$1": a comma followed by
\* white space and the closer X is dropped; the scan resumes after X
RECURSIVE DropCommaBefore(_, _, _, _)
DropCommaBefore(input, i, closer, result) ==
  IF i > Len(input) THEN result
  ELSE LET j == SkipSet(input, i + 1, JsWs)
       IN IF At(input, i) = "," /\ At(input, j) = closer
          THEN DropCommaBefore(input, j + 1, closer, result \o SubSeq(input, i + 1, j))
          ELSE DropCommaBefore(input, i + 1, closer, result \o At(input, i))

fixTrailingCommas(input) ==
  DropCommaBefore(DropCommaBefore(input, 1, "}", ""), 1, "]", "")

\* String.prototype.replace with /([{,]\s*)([a-zA-Z_$][a-zA-Z0-9_$]*)(\s*:)/g
\* and '$1"$2"$3': k is where the identifier starts, e where it ends, j the colon
RECURSIVE QuoteKeysLoop(_, _, _)
QuoteKeysLoop(input, i, result) ==
  IF i > Len(input) THEN result
  ELSE LET k == SkipSet(input, i + 1, JsWs)
           e == SkipSet(input, k + 1, IdPart)
           j == SkipSet(input, e, JsWs)
       IN IF At(input, i) \in {"{", ","} /\ At(input, k) \in IdStart /\ At(input, j) = ":"
          THEN QuoteKeysLoop(input, j + 1,
                 result \o SubSeq(input, i, k - 1) \o "\"" \o SubSeq(input, k, e - 1)
                        \o "\"" \o SubSeq(input, e, j))
          ELSE QuoteKeysLoop(input, i + 1, result \o At(input, i))

fixUnquotedKeys(input) == QuoteKeysLoop(input, 1, "")

(***************************************************************************)
(* The recursive string reviver                                            *)
(***************************************************************************)
\* the try block of minifyJson and formatJson: the serialization of the
\* parsed value, or the input when JSON.parse threw
Reserialized(parsed, input, indent) ==
  IF parsed.ok THEN JSONstringify(parsed.v, indent) ELSE input

\* the text is lost when it does not parse
minifyJsonOrEmpty(input) ==
  IF JSONparse(input).ok THEN JSONstringify(JSONparse(input).v, 0) ELSE ""

minifyJson(input) == Reserialized(JSONparse(input), input, 0)

formatJson(input, indent) == Reserialized(JSONparse(input), input, indent)

\* the value, or null when neither parse succeeds
ValueOrNull(parsed) == IF parsed.ok THEN parsed.v ELSE JNull

TryRepaired(strict, input) ==
  IF strict.ok THEN strict.v
  ELSE ValueOrNull(JSONparse(fixTrailingCommas(convertPythonToJson(input))))

tryParseJsonOrPython(input) == TryRepaired(JSONparse(input), input)

\* trimmed.match(/^([^{[]+?):\s*(\{[\s\S]*\}|\[[\s\S]*\])$/): the candidate
\* lengths p of group 1, shortest first; j is where group 2 starts
SpanStart(trimmed, p) == SkipSet(trimmed, p + 2, JsWs)

PrefixLengths(trimmed) ==
  {p \in 1..Len(trimmed) :
     /\ \A q \in 1..p : At(trimmed, q) \notin {"{", "["}
     /\ At(trimmed, p + 1) = ":"
     /\ LET j == SpanStart(trimmed, p)
        IN /\ j < Len(trimmed)
           /\ \/ At(trimmed, j) = "{" /\ At(trimmed, Len(trimmed)) = "}"
              \/ At(trimmed, j) = "[" /\ At(trimmed, Len(trimmed)) = "]"}

PrefixOfLength(trimmed, p) ==
  [matched |-> TRUE,
   prefix |-> SubSeq(trimmed, 1, p),
   jsonPart |-> From(trimmed, SpanStart(trimmed, p))]

ShortestPrefix(trimmed, ps) ==
  IF ps = {} THEN [matched |-> FALSE, prefix |-> "", jsonPart |-> ""]
  ELSE PrefixOfLength(trimmed, CHOOSE q \in ps : \A r \in ps : q <= r)

prefixMatch(trimmed) == ShortestPrefix(trimmed, PrefixLengths(trimmed))

\* result[key] = v on a fresh object literal: the key "__proto__" reaches the
\* prototype setter and creates no own property
Assign(members, k, v) == IF k = "__proto__" THEN members ELSE ObjSet(members, k, v)

\* the cap is one level further down
MaxReviveDepthLoose == 10 + 1

\* the depth beyond which recursivelyParseStrings returns its argument
MaxReviveDepth == 10

RECURSIVE recursivelyParseStrings(_, _)
RECURSIVE ReviveItems(_, _, _)
RECURSIVE ReviveMembers(_, _, _, _)
RECURSIVE ReviveString(_, _, _)
RECURSIVE ReviveWhole(_, _, _, _)
RECURSIVE RevivePrefixed(_, _, _)
RECURSIVE ReviveSpan(_, _, _, _)

\* value.map(item => recursivelyParseStrings(item, depth + 1)) from item k on
ReviveItems(items, k, depth) ==
  IF k > Len(items) THEN <<>>
  ELSE <<recursivelyParseStrings(items[k], depth + 1)>> \o ReviveItems(items, k + 1, depth)

\* the for-loop over Object.entries(value) from entry k on
ReviveMembers(members, k, result, depth) ==
  IF k > Len(members) THEN result
  ELSE ReviveMembers(members, k + 1,
         Assign(result, members[k].k, recursivelyParseStrings(members[k].v, depth + 1)),
         depth)

\* the prefix is dropped: the leaf becomes the revived span alone
ReviveSpanBare(value, depth, pm, parsed) ==
  IF parsed # JNull THEN recursivelyParseStrings(parsed, depth + 1) ELSE value

\* lines 130-143: the leaf with a prefix before the span
ReviveSpan(value, depth, pm, parsed) ==
  IF parsed # JNull
  THEN JObj(<<Member("_prefix", JStr(trim(pm.prefix))),
              Member("_data", recursivelyParseStrings(parsed, depth + 1))>>)
  ELSE value

RevivePrefixed(value, depth, pm) ==
  IF pm.matched THEN ReviveSpan(value, depth, pm, tryParseJsonOrPython(pm.jsonPart))
  ELSE value

\* lines 124-128: the leaf that is a span as a whole
ReviveWhole(value, depth, trimmed, parsed) ==
  IF parsed # JNull THEN recursivelyParseStrings(parsed, depth + 1)
  ELSE RevivePrefixed(value, depth, prefixMatch(trimmed))

\* lines 116-144: a string leaf
ReviveString(value, depth, trimmed) ==
  IF \/ startsWith(trimmed, "{") /\ endsWith(trimmed, "}")
     \/ startsWith(trimmed, "[") /\ endsWith(trimmed, "]")
  THEN ReviveWhole(value, depth, trimmed, tryParseJsonOrPython(trimmed))
  ELSE RevivePrefixed(value, depth, prefixMatch(trimmed))

recursivelyParseStrings(value, depth) ==
  IF depth > MaxReviveDepth THEN value
  ELSE CASE value.t = "arr" -> JArr(ReviveItems(value.items, 1, depth))
         [] value.t = "obj" -> JObj(ReviveMembers(value.members, 1, <<>>, depth))
         [] value.t = "str" -> ReviveString(value, depth, trim(value.s))
         [] OTHER -> value

(***************************************************************************)
(* fixJson as a state machine: one call runs from "asIs" through the text  *)
(* stages to "done"; its result can then be given to a further call.       *)
(***************************************************************************)
VARIABLES
  input,           \* the argument of the current call
  pc,              \* where the call stands
  processed,       \* the text as repaired so far
  beforeComments,  \* the text each stage received
  beforePython,
  beforeTrailing,
  beforeKeys,
  fixes,           \* labels of the stages that changed the text
  result,          \* the JsonFixResult of the call once pc = "done"
  calls,           \* how many calls were started
  prior,           \* the result of the call before the current one
  given,           \* the text given to minifyJson and formatJson
  indentWidth,     \* the indent given to formatJson
  minifiedText,    \* minifyJson(given)
  formattedText,   \* formatJson(given, indentWidth)
  reformattedText, \* formatJson(minifiedText, indentWidth)
  called,          \* which of these calls have returned
  request,         \* the request the middleware is given
  response,        \* what the middleware answers
  putBody,         \* the body of the PUT request
  reply,           \* the answer of the PUT handler
  formatter,       \* the state of the JsonFormatter component
  effectDue,       \* a dependency of its effect changed and the effect has not run
  lastEvent,       \* the last handler of the component that ran
  mapper,          \* the state and the refs of the UnderwritingMapper component
  requests         \* the requests the component has started, by number

fmtVars == <<formatter, effectDue, lastEvent>>

mapVars == <<mapper, requests>>

viewVars == <<fmtVars, mapVars>>

fixVars == <<input, pc, processed, beforeComments, beforePython, beforeTrailing,
             beforeKeys, fixes, result, calls, prior>>

utilVars == <<given, indentWidth, minifiedText, formattedText, reformattedText, called>>

gateVars == <<request, response>>

putVars == <<putBody, reply>>

vars == <<fixVars, utilVars, gateVars, putVars, viewVars>>

JsonFixResult(success, data, formatted, errors, fixLabels) ==
  [success |-> success, data |-> data, formatted |-> formatted,
   errors |-> errors, fixes |-> fixLabels]

\* no result yet
Pending == JsonFixResult(FALSE, JNull, "", <<>>, <<>>)

\* e.message of the SyntaxError JSON.parse throws
ParseErrorMessage == "SyntaxError: Unexpected token in JSON"

\* the label goes to the front of the trail
PushedFront(labels, label, before, after) ==
  IF after # before THEN <<label>> \o labels ELSE labels

\* fixes.push(label) when the stage changed the text
Pushed(labels, label, before, after) ==
  IF after # before THEN Append(labels, label) ELSE labels

\* the as-is parse also revives nested strings
TryAsIsReviving ==
  /\ pc = "asIs"
  /\ LET trimmed == trim(input)
         parsed == JSONparse(trimmed)
         data == recursivelyParseStrings(parsed.v, 0)
     IN /\ processed' = trimmed
        /\ IF parsed.ok
           THEN /\ result' = JsonFixResult(TRUE, data, JSONstringify(data, 2), <<>>, <<>>)
                /\ pc' = "done"
           ELSE /\ result' = result
                /\ pc' = "comments"
  /\ UNCHANGED <<input, beforeComments, beforePython, beforeTrailing, beforeKeys,
                 fixes, calls, prior>>
  /\ UNCHANGED <<utilVars, gateVars, putVars, viewVars>>

\* the as-is parse is missing: every text goes through the stages
TryAsIsSkipped ==
  /\ pc = "asIs"
  /\ processed' = trim(input)
  /\ pc' = "comments"
  /\ UNCHANGED <<input, beforeComments, beforePython, beforeTrailing, beforeKeys,
                 fixes, result, calls, prior>>
  /\ UNCHANGED <<utilVars, gateVars, putVars, viewVars>>

\* lines 19-33: trim, then JSON.parse of the text as it is
TryAsIs ==
  /\ pc = "asIs"
  /\ LET trimmed == trim(input)
         parsed == JSONparse(trimmed)
     IN /\ processed' = trimmed
        /\ IF parsed.ok
           THEN /\ result' = JsonFixResult(TRUE, parsed.v, JSONstringify(parsed.v, 2), <<>>, <<>>)
                /\ pc' = "done"
           ELSE /\ result' = result
                /\ pc' = "comments"
  /\ UNCHANGED <<input, beforeComments, beforePython, beforeTrailing, beforeKeys,
                 fixes, calls, prior>>
  /\ UNCHANGED <<utilVars, gateVars, putVars, viewVars>>

\* lines 37-42
StripComments ==
  /\ pc = "comments"
  /\ beforeComments' = processed
  /\ processed' = removeComments(processed)
  /\ fixes' = Pushed(fixes, "Removed JavaScript comments", processed, processed')
  /\ pc' = "python"
  /\ UNCHANGED <<input, beforePython, beforeTrailing, beforeKeys, result, calls, prior>>
  /\ UNCHANGED <<utilVars, gateVars, putVars, viewVars>>

\* lines 44-49
ConvertPython ==
  /\ pc = "python"
  /\ beforePython' = processed
  /\ processed' = convertPythonToJson(processed)
  /\ fixes' = Pushed(fixes, "Converted Python dict syntax to JSON", processed, processed')
  /\ pc' = "trailing"
  /\ UNCHANGED <<input, beforeComments, beforeTrailing, beforeKeys, result, calls, prior>>
  /\ UNCHANGED <<utilVars, gateVars, putVars, viewVars>>

\* lines 51-56
FixTrailing ==
  /\ pc = "trailing"
  /\ beforeTrailing' = processed
  /\ processed' = fixTrailingCommas(processed)
  /\ fixes' = Pushed(fixes, "Removed trailing commas", processed, processed')
  /\ pc' = "keys"
  /\ UNCHANGED <<input, beforeComments, beforePython, beforeKeys, result, calls, prior>>
  /\ UNCHANGED <<utilVars, gateVars, putVars, viewVars>>

\* lines 58-63
FixKeys ==
  /\ pc = "keys"
  /\ beforeKeys' = processed
  /\ processed' = fixUnquotedKeys(processed)
  /\ fixes' = Pushed(fixes, "Added quotes to unquoted keys", processed, processed')
  /\ pc' = "parse"
  /\ UNCHANGED <<input, beforeComments, beforePython, beforeTrailing, result, calls, prior>>
  /\ UNCHANGED <<utilVars, gateVars, putVars, viewVars>>

\* the formatted text is taken from the value as parsed, before revival
RevivedStale(labels, before, data) ==
  JsonFixResult(TRUE, data, JSONstringify(before, 2), <<>>,
                Pushed(labels, "Recursively parsed nested JSON/Python strings",
                       JSONstringify(before, 0), JSONstringify(data, 0)))

\* lines 70-82: the label of the revival and the success result
Revived(labels, before, data) ==
  JsonFixResult(TRUE, data, JSONstringify(data, 2), <<>>,
                Pushed(labels, "Recursively parsed nested JSON/Python strings",
                       JSONstringify(before, 0), JSONstringify(data, 0)))

\* lines 66-93: the result of the try block over the repaired text
ParsedResult(labels, parsed) ==
  IF parsed.ok
  THEN Revived(labels, parsed.v, recursivelyParseStrings(parsed.v, 0))
  ELSE JsonFixResult(FALSE, JNull, "", <<ParseErrorMessage>>, labels)

\* a failed parse sends the text through the stages once more
ParseFixedRetrying ==
  /\ pc = "parse"
  /\ result' = ParsedResult(fixes, JSONparse(processed))
  /\ fixes' = result'.fixes
  /\ pc' = IF result'.success \/ processed = beforeComments THEN "done" ELSE "comments"
  /\ UNCHANGED <<input, processed, beforeComments, beforePython, beforeTrailing,
                 beforeKeys, calls, prior>>
  /\ UNCHANGED <<utilVars, gateVars, putVars, viewVars>>

\* fixJson as a function of its argument: lines 51-93, 44-49, 37-42, 19-33
KeysFixed(l2, t3, t4) ==
  ParsedResult(Pushed(l2, "Added quotes to unquoted keys", t3, t4), JSONparse(t4))

TrailingFixed(l1, t2, t3) ==
  KeysFixed(Pushed(l1, "Removed trailing commas", t2, t3), t3, fixUnquotedKeys(t3))

PythonConvertedText(l0, t1, t2) ==
  TrailingFixed(Pushed(l0, "Converted Python dict syntax to JSON", t1, t2), t2,
                fixTrailingCommas(t2))

CommentsStripped(t0, t1) ==
  PythonConvertedText(Pushed(<<>>, "Removed JavaScript comments", t0, t1), t1,
                      convertPythonToJson(t1))

AsIsOr(processed0, parsed) ==
  IF parsed.ok
  THEN JsonFixResult(TRUE, parsed.v, JSONstringify(parsed.v, 2), <<>>, <<>>)
  ELSE CommentsStripped(processed0, removeComments(processed0))

fixJson(text) == AsIsOr(trim(text), JSONparse(trim(text)))

\* lines 65-93: parse the repaired text, revive nested strings, format
ParseFixed ==
  /\ pc = "parse"
  /\ result' = ParsedResult(fixes, JSONparse(processed))
  /\ fixes' = result'.fixes
  /\ pc' = "done"
  /\ UNCHANGED <<input, processed, beforeComments, beforePython, beforeTrailing,
                 beforeKeys, calls, prior>>
  /\ UNCHANGED <<utilVars, gateVars, putVars, viewVars>>

\* how many calls one run chains
MaxCalls == 2

\* fixJson(result.formatted): the formatted output of a successful call is
\* the argument of a new call
CallAgain ==
  /\ pc = "done"
  /\ result.success
  /\ calls < MaxCalls
  /\ input' = result.formatted
  /\ prior' = result
  /\ calls' = calls + 1
  /\ pc' = "asIs"
  /\ processed' = ""
  /\ beforeComments' = ""
  /\ beforePython' = ""
  /\ beforeTrailing' = ""
  /\ beforeKeys' = ""
  /\ fixes' = <<>>
  /\ result' = Pending
  /\ UNCHANGED <<utilVars, gateVars, putVars, viewVars>>

Next ==
  \/ TryAsIs
  \/ StripComments
  \/ ConvertPython
  \/ FixTrailing
  \/ FixKeys
  \/ ParseFixed
  \/ CallAgain

\* all texts of at most n tokens
RECURSIVE TextsOf(_, _)
TextsOf(tokens, n) ==
  IF n = 0 THEN {""}
  ELSE LET shorter == TextsOf(tokens, n - 1)
       IN shorter \cup {t \o c : t \in shorter, c \in tokens}

\* the parts of the program that take no part in a run
UtilIdle ==
  /\ given = ""
  /\ indentWidth = 2
  /\ minifiedText = ""
  /\ formattedText = ""
  /\ reformattedText = ""
  /\ called = {}

GateIdle ==
  /\ request = [route |-> "/", authenticated |-> FALSE, email |-> ""]
  /\ response = "pending"

PutIdle ==
  /\ putBody = JNull
  /\ reply = JNull

\* the formatter as mounted: empty input, and the first effect has run
Mounted ==
  [input |-> "", output |-> "", isValid |-> TRUE, errors |-> <<>>, fixes |-> <<>>,
   isMinified |-> FALSE]

FmtIdle ==
  /\ formatter = Mounted
  /\ effectDue = FALSE
  /\ lastEvent = [name |-> "mount", indent |-> 0]

\* the four tabs
ActionTypes == {"generate", "analyze", "list-fields", "validate"}

\* null as a result
NoResult == [action |-> "", id |-> 0, mappings |-> FALSE]

\* lines 65-101: the component as mounted
MapperMounted ==
  [action |-> "generate",
   isProcessing |-> FALSE,
   resultsByAction |-> [a \in ActionTypes |-> NoResult],
   error |-> "",
   selectedMappingByAction |-> [a \in ActionTypes |-> ""],
   availableSheetsByAction |-> [a \in ActionTypes |-> FALSE],
   currentFile |-> "",
   history |-> <<>>,
   abortControllerRef |-> 0,
   resultRef |-> NoResult,
   currentFileRef |-> "",
   selectedMappingRef |-> "",
   actionRef |-> "generate"]

MapIdle ==
  /\ mapper = MapperMounted
  /\ requests = <<>>

ViewIdle == FmtIdle /\ MapIdle

FixIdle ==
  /\ input = ""
  /\ pc = "done"
  /\ processed = ""
  /\ beforeComments = ""
  /\ beforePython = ""
  /\ beforeTrailing = ""
  /\ beforeKeys = ""
  /\ fixes = <<>>
  /\ result = Pending
  /\ calls = 0
  /\ prior = Pending

\* the first call of a run is given one of the texts
InitWith(texts) ==
  /\ input \in texts
  /\ pc = "asIs"
  /\ processed = ""
  /\ beforeComments = ""
  /\ beforePython = ""
  /\ beforeTrailing = ""
  /\ beforeKeys = ""
  /\ fixes = <<>>
  /\ result = Pending
  /\ calls = 1
  /\ prior = Pending
  /\ UtilIdle
  /\ GateIdle
  /\ PutIdle
  /\ ViewIdle

\* how many tokens the enumerated texts have at most
MaxTokens == 4

\* the documented examples and texts that exercise each stage
Corpus ==
  { "{\"extractor_request\": \"{'key': 'value'}\"}",
    "{'extractor_request': \"{'key': 'value'}\"}",
    "{\"log\": \"request: {'key': [1, 2,]}\"}",
    "{'name': 'O'Brien'}",
    "{'name': 'O\\'Brien'}",
    "{a: b}",
    "{a: 1, b_c: 'x', }",
    "{'ok': True, 'val': None}",
    "{'ok': False, 'n': [None, True]}",
    "{\"a\":1,}",
    "[1, 2, ]",
    "[\",]\",]",
    "{\"k\": \"{x: 1}\",}",
    "{'a': ', }'}",
    "{\"s\": \",,}\"}",
    "[\"[1]\", \"{'k': 1}\"]",
    "{not json at all",
    "{\"a\": \"x//y\", // c\n \"b\": '/* z */' /* q */}",
    "[1, /* abc",
    "{'a': 'NoneType', 'b': isNone}",
    "{'a': '\\x41\\u0042\\q'}",
    "  {\"a\": [1.50, -2e3, \"t\\n\\\"\", true, false, null, {}]}\n",
    "{\"b\": 1, \"10\": 2, \"9\": 3, \"b\": 4}",
    "['[\"[1]\"]', '{\"__proto__\": 1}']",
    "[{\"a\": 1}\n{\"b\": 2}]",
    "[\"a\"\n\"b\"]",
    "{a: 'x', // c\n \"n\": \"[1]\", }",
    "[\"[1 /* c */]\",]",
    "['[1, // c\\n 2]']",
    "['\\x9', 1]",
    "['\\xA\\', 1]",
    "['\\x9', \"None\"]" }

\* small documents: a frame around one or two leaves
Leaves ==
  { "1", "\"a\"", "'a'", "None", "true", "\"[1,]\"", "'{\\'k\\': None}'",
    "\"p: [1]\"", "\" {} \"", "'it\\'s'", "\"a\\\\b\"", "[]", "x" }

Frames ==
  { <<"[", ", ", "]">>, <<"[", ",", ",]">>, <<"{'k': ", ", 'j': ", "}">>,
    <<"{\"k\": ", ", \"k\": ", "}">>, <<"{k: ", ", j2: ", ",\n}">>,
    <<" [", " // c\n ,", "] ">>, <<"[[", "], /* c */ {\"1\": ", "}]">> }

Docs == {f[1] \o x \o f[2] \o y \o f[3] : f \in Frames, x \in Leaves, y \in Leaves}

\* objects in Python syntax: a single-quoted key and a Python literal
PyKeys == {"ok", "val", "a b", "it's not", "None", ",}", "{k:"}

PyLiterals == {"True", "False", "None"}

PyObject(k, lit) == "{'" \o k \o "': " \o lit \o "}"

\* the same key with an escaped apostrophe where the key holds one
RECURSIVE PyEscaped(_)
PyEscaped(k) ==
  IF Len(k) = 0 THEN ""
  ELSE (IF At(k, 1) = "'" THEN "\\'" ELSE At(k, 1)) \o PyEscaped(From(k, 2))

PyObjects == {PyObject(PyEscaped(k), lit) : k \in PyKeys, lit \in PyLiterals}

\* valid JSON but for trailing commas: a frame <<before, after>> around a
\* string literal, with and without the trailing commas
StringBodies == {"a", "x y", ",]", ", }", "a,b"}

TrailingFrames ==
  { <<"[", ",]", "]">>, <<"{\"a\":", ",}", "}">>, <<"[1, ", " , ]", "  ]">>,
    <<"{\"a\": [", ",\n],\n}", "\n]\n}">> }

WithTrailing(f, body) == f[1] \o "\"" \o body \o "\"" \o f[2]

WithoutTrailing(f, body) == f[1] \o "\"" \o body \o "\"" \o f[3]

TrailingTexts == {WithTrailing(f, b) : f \in TrailingFrames, b \in StringBodies}

\* how deep the nested arrays of the deep texts go
MaxNesting == 12

\* a string leaf inside n arrays, and a trailing comma for the repair path
DeepLeaves == {"\"[1]\"", "\"[\\\"[2]\\\"]\""}

DeepText(n, leaf) == Repeat("[", n) \o leaf \o "," \o Repeat("]", n)

DeepTexts == {DeepText(n, leaf) : n \in 1..MaxNesting, leaf \in DeepLeaves}

\* a Python literal next to an identifier character, before it or after it
BoundaryTexts ==
  {"NoneType", "True_", "False1", "isNone", "xTrue", "_False", "1None", "[isNone, NoneType]"}

\* string leaves with a label before a span, in an array with a trailing
\* comma for the repair path; the last one lies inside eleven arrays
PrefixTexts ==
  { "[\"p: {'k': 1}\",]",
    "[\"p: {x}\",]",
    "[\" : [1]\",]",
    "[\" a b : [1, 2,]\",]",
    "[\"a: b: {}\",]",
    "[\"p:[1]\",]",
    "[\"p: [1}\",]",
    "[\"p [1]\",]",
    "[\"p: [\\\"q: [2]\\\"]\",]",
    Repeat("[", 11) \o "\"p: [1]\"," \o Repeat("]", 11) }

Families ==
  Corpus \cup Docs \cup PyObjects \cup TrailingTexts \cup DeepTexts \cup BoundaryTexts
    \cup PrefixTexts

JsonTokens == {"{", "}", "[", "]", ",", ":", "\"", "'", "\\", "1", "a"}

Init == InitWith(Families \cup TextsOf(JsonTokens, MaxTokens))

Spec == Init /\ [][Next]_vars

CommentTokens == {"/", "*", "\n", "\"", "'", "\\", "a", ",", "}"}

InitComments == InitWith(Families \cup TextsOf(CommentTokens, MaxTokens))

SpecComments == InitComments /\ [][Next]_vars

\* texts that end inside a string, a comment or an escape
OpenTokens == {"\"", "'", "\\", "/", "*", "\n", "{", "x", "u", ","}

InitOpen == InitWith(Corpus \cup TextsOf(OpenTokens, MaxTokens))

SpecOpen == InitOpen /\ [][Next]_vars

(***************************************************************************)
(* minifyJson and formatJson                                               *)
(***************************************************************************)
MinifyText ==
  /\ "minify" \notin called
  /\ minifiedText' = minifyJson(given)
  /\ called' = called \cup {"minify"}
  /\ UNCHANGED <<given, indentWidth, formattedText, reformattedText>>
  /\ UNCHANGED <<fixVars, gateVars, putVars, viewVars>>

FormatText ==
  /\ "format" \notin called
  /\ formattedText' = formatJson(given, indentWidth)
  /\ called' = called \cup {"format"}
  /\ UNCHANGED <<given, indentWidth, minifiedText, reformattedText>>
  /\ UNCHANGED <<fixVars, gateVars, putVars, viewVars>>

\* formatJson(minifyJson(t), n)
FormatMinified ==
  /\ "minify" \in called
  /\ "reformat" \notin called
  /\ reformattedText' = formatJson(minifiedText, indentWidth)
  /\ called' = called \cup {"reformat"}
  /\ UNCHANGED <<given, indentWidth, minifiedText, formattedText>>
  /\ UNCHANGED <<fixVars, gateVars, putVars, viewVars>>

NextUtil ==
  \/ MinifyText
  \/ FormatText
  \/ FormatMinified

\* texts with numbers in and beyond the range of a double, and white space
NumberTexts ==
  { "1e400", "[-1e999, 1]", "{\"a\": 1e-400}", "-0", " [1.50, \"a b\" ] ",
    "[1e21, 1e-7, 120, 0.001]", "1e", "[1 2]" }

UtilTokens == {"[", "]", ",", "1", "0", "e", "-", "\"", " "}

Indents == {0, 2, 12}

InitUtil ==
  /\ given \in Corpus \cup NumberTexts \cup TextsOf(UtilTokens, MaxTokens)
  /\ indentWidth \in Indents
  /\ minifiedText = ""
  /\ formattedText = ""
  /\ reformattedText = ""
  /\ called = {}
  /\ FixIdle
  /\ GateIdle
  /\ PutIdle
  /\ ViewIdle

SpecUtil == InitUtil /\ [][NextUtil]_vars

(***************************************************************************)
(* The authentication middleware                                           *)
(***************************************************************************)
ALLOWED_DOMAIN == "siftt.ai"

\* createRouteMatcher(["/sign-in(.*)", "/unauthorized(.*)"])
isPublicRoute(route) == startsWith(route, "/sign-in") \/ startsWith(route, "/unauthorized")

\* the places of the separator in the string
PlacesOf(str, sep) == {i \in 1..Len(str) : At(str, i) = sep}

\* the first place of a non-empty set of places
FirstOf(places) == CHOOSE i \in places : \A j \in places : i <= j

\* str.split(sep)[1]: what lies between the first separator and the next (or
\* the end); undefined when the string holds no separator
SecondPart(str, sep, places) ==
  IF places = {} THEN [defined |-> FALSE, s |-> ""]
  ELSE [defined |-> TRUE,
        s |-> SubSeq(str, FirstOf(places) + 1,
                     IF places \ {FirstOf(places)} = {} THEN Len(str)
                     ELSE FirstOf(places \ {FirstOf(places)}) - 1)]

splitSecond(str, sep) == SecondPart(str, sep, PlacesOf(str, sep))

\* lines 21-28 with the claims of an authenticated session; a session
\* without an email claim has email "", which is as falsy as undefined
DomainCheck(email, domain) ==
  IF email # "" /\ ~(domain.defined /\ domain.s = ALLOWED_DOMAIN)
  THEN "redirect /unauthorized"
  ELSE "next"

\* the callback given to clerkMiddleware; auth.protect() does not return for
\* a request without a session (Clerk answers it itself)
clerkMiddleware(req) ==
  IF isPublicRoute(req.route) THEN "next"
  ELSE IF ~req.authenticated THEN "protect"
  ELSE DomainCheck(req.email, splitSecond(req.email, "@"))

Middleware ==
  /\ response = "pending"
  /\ response' = clerkMiddleware(request)
  /\ UNCHANGED request
  /\ UNCHANGED <<fixVars, utilVars, putVars, viewVars>>

NextGate == Middleware

Routes ==
  { "/", "/tools/json-formatter", "/api/underwriting-mapper", "/sign-in",
    "/sign-in/sso-callback", "/unauthorized", "/sign-up" }

Emails ==
  { "", "ann@siftt.ai", "bob@evil.com", "eve@siftt.ai@evil.com", "siftt.ai",
    "ann@SIFTT.AI", "ann@siftt.ai.evil.com", "ann@mail.siftt.ai", "@siftt.ai" }

InitGate ==
  /\ request \in [route : Routes, authenticated : BOOLEAN, email : Emails]
  /\ response = "pending"
  /\ FixIdle
  /\ UtilIdle
  /\ PutIdle
  /\ ViewIdle

SpecGate == InitGate /\ [][NextGate]_vars

(***************************************************************************)
(* PUT /api/underwriting-mapper: the validation of a mapping               *)
(***************************************************************************)
\* a body that request.json() cannot parse
Unparsable == [t |-> "unparsable"]

\* a property that is not there
Undefined == [t |-> "undefined"]

\* ToBoolean of a value
Truthy(v) ==
  CASE v.t \in {"null", "undefined"} -> FALSE
    [] v.t = "bool" -> v.b
    [] v.t = "num" -> v.m # 0
    [] v.t = "str" -> v.s # ""
    [] OTHER -> TRUE

\* the places of a key among the members of an object
KeyPlaces(members, key) == {k \in 1..Len(members) : members[k].k = key}

\* value[key] for one of the keys the handler reads: own properties of an
\* object; the other values have no such property
Property(v, key) ==
  IF v.t = "obj" /\ KeyPlaces(v.members, key) # {}
  THEN v.members[CHOOSE k \in KeyPlaces(v.members, key) : TRUE].v
  ELSE Undefined

\* key in value, for an object or an array and one of the required keys
HasProperty(v, key) == v.t = "obj" /\ KeyPlaces(v.members, key) # {}

\* Object.entries(value)
Entries(v) ==
  CASE v.t = "obj" -> v.members
    [] v.t = "arr" -> [k \in 1..Len(v.items) |-> Member(ToString(k - 1), v.items[k])]
    [] v.t = "str" -> [k \in 1..Len(v.s) |-> Member(ToString(k - 1), JStr(At(v.s, k)))]
    [] OTHER -> <<>>

RequiredProps == <<"cells", "type", "is_monthly", "description">>

\* lines 215-220: the warnings for the required properties from the p-th on
RECURSIVE MissingProps(_, _, _, _)
MissingProps(key, field, p, warnings) ==
  IF p > Len(RequiredProps) THEN warnings
  ELSE MissingProps(key, field, p + 1,
         IF ~HasProperty(field, RequiredProps[p])
         THEN Append(warnings, "Field '" \o key \o "' missing '" \o RequiredProps[p] \o "'")
         ELSE warnings)

\* typeof value === "object": null, objects and arrays
TypeofObject(v) == v.t \in {"null", "obj", "arr"}

\* lines 205-225: one turn of the loop for a key other than sheet_name
FieldChecked(key, value, acc) ==
  IF ~TypeofObject(value) \/ value.t = "null"
  THEN [fieldCount |-> acc.fieldCount + 1,
        errors |-> Append(acc.errors, "Field '" \o key \o "' is not a dictionary"),
        warnings |-> acc.warnings]
  ELSE [fieldCount |-> acc.fieldCount + 1,
        errors |-> IF HasProperty(value, "cells") /\ Property(value, "cells").t # "arr"
                   THEN Append(acc.errors, "Field '" \o key \o "' cells should be a list")
                   ELSE acc.errors,
        warnings |-> MissingProps(key, value, 1, acc.warnings)]

\* lines 202-226: the loop over Object.entries(mapping) from the k-th entry on
RECURSIVE FieldLoop(_, _, _)
FieldLoop(entries, k, acc) ==
  IF k > Len(entries) THEN acc
  ELSE IF entries[k].k = "sheet_name" THEN FieldLoop(entries, k + 1, acc)
  ELSE FieldLoop(entries, k + 1, FieldChecked(entries[k].k, entries[k].v, acc))

ErrorReply(message) == [status |-> 400, error |-> message]

\* lines 228-234
ValidateReply(acc) ==
  [status |-> 200, success |-> Len(acc.errors) = 0, action |-> "validate",
   fieldCount |-> acc.fieldCount, errors |-> acc.errors, warnings |-> acc.warnings]

\* lines 185-234 for the mapping of the body
Validated(mapping) ==
  IF ~Truthy(mapping) THEN ErrorReply("No mapping provided")
  ELSE ValidateReply(
         FieldLoop(Entries(mapping), 1,
           [fieldCount |-> 0,
            errors |-> IF ~Truthy(Property(mapping, "sheet_name"))
                       THEN <<"Missing 'sheet_name' field">> ELSE <<>>,
            warnings |-> <<>>]))

\* the handler: request.json() throws on a body that is not JSON, and the
\* destructuring throws on the body null; both end in the catch
PUT(b) ==
  IF b.t \in {"unparsable", "null"} THEN ErrorReply("Invalid JSON")
  ELSE Validated(Property(b, "mapping"))

Put ==
  /\ reply = JNull
  /\ reply' = PUT(putBody)
  /\ UNCHANGED putBody
  /\ UNCHANGED <<fixVars, utilVars, gateVars, viewVars>>

NextPut == Put

\* the values of a mapping's fields
FullField ==
  JObj(<<Member("cells", JArr(<<JStr("B2")>>)), Member("type", JStr("number")),
         Member("is_monthly", JBool(FALSE)), Member("description", JStr("d"))>>)

FieldValues ==
  { FullField,
    JObj(<<Member("cells", JArr(<<>>)), Member("type", JStr("number"))>>),
    JObj(<<Member("cells", JStr("B2")), Member("type", JStr("number")),
           Member("is_monthly", JBool(TRUE)), Member("description", JStr(""))>>),
    JObj(<<>>),
    JArr(<<JStr("B2")>>),
    JArr(<<>>),
    JStr("B2"),
    JNum(7, 0),
    JNull }

SheetNames == {<<>>, <<Member("sheet_name", JStr("Sheet1"))>>, <<Member("sheet_name", JStr(""))>>}

FieldLists ==
  {<<>>} \cup {<<Member("revenue", v)>> : v \in FieldValues}
         \cup {<<Member("revenue", v), Member("noi", w)>> : v \in FieldValues, w \in FieldValues}

Mappings ==
  {JObj(sn \o fs) : sn \in SheetNames, fs \in FieldLists}
    \cup {JObj(<<Member("noi", FullField), Member("sheet_name", JStr("S"))>>),
          JStr("ab"), JArr(<<FullField>>), JNull, JNum(0, 0), JBool(TRUE)}

Bodies ==
  {JObj(<<Member("mapping", m)>>) : m \in Mappings}
    \cup {JObj(<<>>), JNull, Unparsable, JArr(<<>>)}

InitPut ==
  /\ putBody \in Bodies
  /\ reply = JNull
  /\ FixIdle
  /\ UtilIdle
  /\ GateIdle
  /\ ViewIdle

SpecPut == InitPut /\ [][NextPut]_vars

(***************************************************************************)
(* The JsonFormatter component (JsonFormatter.tsx).  A handler runs on the *)
(* state of the last render, after the effects of that render have run.   *)
(***************************************************************************)
\* the texts the user types or pastes
FormatterInputs ==
  { "", "  ", "{\"a\": 1}", "[1, 2]", "{'a': 1,}", "[\"[1]\",]", "{a: b}", "[1, /* abc" }

\* the indents of the two format buttons
IndentButtons == {2, 4}

\* onChange of JsonInput: setInput(text)
SetInput ==
  /\ ~effectDue
  /\ \E text \in FormatterInputs :
       /\ formatter' = [formatter EXCEPT !.input = text]
       /\ effectDue' = (text # formatter.input)
  /\ lastEvent' = [name |-> "input", indent |-> 0]
  /\ UNCHANGED <<fixVars, utilVars, gateVars, putVars, mapVars>>

\* lines 30-34: the output the effect sets from the result of fixJson
EffectOutputKept(fixed, isMinified, output) ==
  IF fixed.success
  THEN IF isMinified THEN minifyJson(fixed.formatted) ELSE fixed.formatted
  ELSE output

EffectOutput(fixed, isMinified, output) ==
  IF fixed.success
  THEN IF isMinified THEN minifyJson(fixed.formatted) ELSE fixed.formatted
  ELSE ""

\* lines 25-34: the state the effect sets for a non-blank input
Effected(state, fixed) ==
  [state EXCEPT !.isValid = fixed.success,
                !.errors = fixed.errors,
                !.fixes = fixed.fixes,
                !.output = EffectOutput(fixed, state.isMinified, state.output)]

\* lines 16-35: the effect on [input, isMinified]
RunEffect ==
  /\ effectDue
  /\ formatter' =
       IF trim(formatter.input) = ""
       THEN [formatter EXCEPT !.output = "", !.isValid = TRUE, !.errors = <<>>,
                              !.fixes = <<>>]
       ELSE Effected(formatter, fixJson(formatter.input))
  /\ effectDue' = FALSE
  /\ UNCHANGED lastEvent
  /\ UNCHANGED <<fixVars, utilVars, gateVars, putVars, mapVars>>

\* lines 37-43
handleClear ==
  /\ ~effectDue
  /\ formatter' = [formatter EXCEPT !.input = "", !.output = "", !.isValid = TRUE,
                                    !.errors = <<>>, !.fixes = <<>>]
  /\ effectDue' = (formatter.input # "")
  /\ lastEvent' = [name |-> "clear", indent |-> 0]
  /\ UNCHANGED <<fixVars, utilVars, gateVars, putVars, mapVars>>

\* lines 45-48
toggleMinify ==
  /\ ~effectDue
  /\ formatter.output # ""
  /\ formatter' = [formatter EXCEPT !.isMinified = ~formatter.isMinified]
  /\ effectDue' = TRUE
  /\ lastEvent' = [name |-> "minify", indent |-> 0]
  /\ UNCHANGED <<fixVars, utilVars, gateVars, putVars, mapVars>>

\* lines 53-62: the output after the try and its catch
Reformatted(output, parsed, fixed, indent) ==
  IF parsed.ok THEN JSONstringify(parsed.v, indent)
  ELSE IF fixed.success THEN formatJson(fixed.formatted, indent)
  ELSE output

\* lines 50-63
handleFormatWithIndent ==
  /\ ~effectDue
  /\ formatter.output # ""
  /\ \E indent \in IndentButtons :
       /\ formatter' =
            [formatter EXCEPT
               !.isMinified = FALSE,
               !.output = Reformatted(formatter.output, JSONparse(formatter.output),
                                      fixJson(formatter.input), indent)]
       /\ lastEvent' = [name |-> "format", indent |-> indent]
  /\ effectDue' = formatter.isMinified
  /\ UNCHANGED <<fixVars, utilVars, gateVars, putVars, mapVars>>

NextFormatter ==
  \/ SetInput
  \/ RunEffect
  \/ handleClear
  \/ toggleMinify
  \/ handleFormatWithIndent

InitFormatter ==
  /\ FmtIdle
  /\ MapIdle
  /\ FixIdle
  /\ UtilIdle
  /\ GateIdle
  /\ PutIdle

SpecFormatter == InitFormatter /\ [][NextFormatter]_vars

(***************************************************************************)
(* The UnderwritingMapper component (UnderwritingMapper.tsx).  A request   *)
(* is in flight from the handler that starts it until its response is      *)
(* handled; an aborted fetch rejects at once, so the catch and finally of  *)
(* an aborted upload run right after the handler that aborted it.          *)
(***************************************************************************)
\* how many requests one run starts
MaxRequests == 3

\* the files the user picks
Files == {"a.xlsx", "b.xlsx"}

\* lines 112-115: the effects that copy state to the refs after a render;
\* they run in this order, so the first and third read the ref of the action
\* as the effect of an earlier render left it
RefsSynced(old, m) ==
  [m EXCEPT
     !.resultRef = IF m.resultsByAction # old.resultsByAction
                   THEN m.resultsByAction[old.actionRef] ELSE old.resultRef,
     !.currentFileRef = m.currentFile,
     !.selectedMappingRef = IF m.selectedMappingByAction # old.selectedMappingByAction
                            THEN m.selectedMappingByAction[old.actionRef]
                            ELSE old.selectedMappingRef,
     !.actionRef = m.action]

\* lines 219-228: the catch and the finally of an upload whose fetch was aborted
AbortSettled(m) ==
  [m EXCEPT !.error = "Request cancelled", !.isProcessing = FALSE,
            !.abortControllerRef = 0]

\* lines 136-146: the item handleFileUpload puts in front of history
Archived(m) ==
  IF m.resultRef # NoResult /\ m.currentFileRef # ""
  THEN SubSeq(<<[fileName |-> m.currentFileRef,
                 action |-> m.resultRef.action,
                 result |-> m.resultRef,
                 selectedMapping |-> m.selectedMappingRef]>> \o m.history,
              1, IF Len(m.history) + 1 > 10 THEN 10 ELSE Len(m.history) + 1)
  ELSE m.history

\* lines 128-153: handleFileUpload up to its first await
UploadStarted(m, file, rid) ==
  [m EXCEPT !.abortControllerRef = rid,
            !.history = Archived(m),
            !.currentFile = file,
            !.isProcessing = TRUE,
            !.error = "",
            !.resultsByAction[m.action] = NoResult,
            !.selectedMappingByAction[m.action] = ""]

\* a request: what started it, the action of the render that started it, and
\* whether it is in flight, was aborted, and was in flight when Cancel was hit
Request(kind, tab) ==
  [kind |-> kind, tab |-> tab, inFlight |-> TRUE, aborted |-> FALSE, cancelled |-> FALSE]

\* controller.abort() on the request a ref holds
Aborted(reqs, rid) ==
  [k \in DOMAIN reqs |->
     IF k = rid /\ reqs[k].inFlight
     THEN [reqs[k] EXCEPT !.aborted = TRUE, !.inFlight = FALSE]
     ELSE reqs[k]]

\* whether the controller in the ref belongs to an upload still in flight
HoldsLiveController(m) ==
  /\ m.abortControllerRef # 0
  /\ requests[m.abortControllerRef].inFlight

\* lines 126-233, from the Extract button of FileUpload, shown while
\* isProcessing is false on any tab but validate
handleFileUpload ==
  /\ ~mapper.isProcessing
  /\ mapper.action # "validate"
  /\ Len(requests) < MaxRequests
  /\ \E file \in Files :
       mapper' = RefsSynced(mapper,
                   IF HoldsLiveController(mapper)
                   THEN AbortSettled(UploadStarted(mapper, file, Len(requests) + 1))
                   ELSE UploadStarted(mapper, file, Len(requests) + 1))
  /\ requests' = Append(Aborted(requests, mapper.abortControllerRef),
                        Request("upload", mapper.action))
  /\ UNCHANGED <<fixVars, utilVars, gateVars, putVars, fmtVars>>

\* lines 235-242, from the Cancel button, shown while isProcessing is true
handleCancel ==
  /\ mapper.isProcessing
  /\ mapper' = RefsSynced(mapper,
                 [mapper EXCEPT !.abortControllerRef = 0, !.isProcessing = FALSE,
                                !.error = "Request cancelled"])
  /\ requests' = [k \in DOMAIN requests |->
                    IF ~requests[k].inFlight THEN requests[k]
                    ELSE IF k = mapper.abortControllerRef
                    THEN [requests[k] EXCEPT !.aborted = TRUE, !.inFlight = FALSE,
                                             !.cancelled = TRUE]
                    ELSE [requests[k] EXCEPT !.cancelled = TRUE]]
  /\ UNCHANGED <<fixVars, utilVars, gateVars, putVars, fmtVars>>

\* lines 244-273, from a sheet button of the list-fields tab
handleListFields ==
  /\ ~mapper.isProcessing
  /\ mapper.action = "list-fields"
  /\ mapper.availableSheetsByAction["list-fields"]
  /\ mapper.currentFile # ""
  /\ Len(requests) < MaxRequests
  /\ mapper' = RefsSynced(mapper, [mapper EXCEPT !.isProcessing = TRUE, !.error = ""])
  /\ requests' = Append(requests, Request("list-fields", mapper.action))
  /\ UNCHANGED <<fixVars, utilVars, gateVars, putVars, fmtVars>>

\* lines 275-304, from the Validate button: the pasted text parses or not
handleValidate ==
  /\ ~mapper.isProcessing
  /\ mapper.action = "validate"
  /\ Len(requests) < MaxRequests
  /\ \E parses \in BOOLEAN :
       IF parses
       THEN /\ mapper' = RefsSynced(mapper,
                           [mapper EXCEPT !.isProcessing = TRUE, !.error = ""])
            /\ requests' = Append(requests, Request("validate", mapper.action))
       ELSE /\ mapper' = RefsSynced(mapper,
                           [mapper EXCEPT !.isProcessing = FALSE,
                                          !.error = "Invalid JSON format"])
            /\ requests' = requests
  /\ UNCHANGED <<fixVars, utilVars, gateVars, putVars, fmtVars>>

\* the body of a good response to request rid
ResultData(q, rid) ==
  [action |-> IF q.kind = "upload" THEN q.tab ELSE q.kind,
   id |-> rid,
   mappings |-> (q.kind = "upload" /\ q.tab = "generate")]

\* lines 157-217, 262-267, 293-294: what the handler does with the response
Responded(m, q, rid, ok) ==
  IF q.kind = "upload" /\ ~ok THEN [m EXCEPT !.error = "Failed to process file"]
  ELSE IF q.kind = "upload" /\ q.tab = "list-fields"
  THEN [m EXCEPT !.availableSheetsByAction[q.tab] = TRUE, !.isProcessing = FALSE]
  ELSE IF q.kind = "upload"
  THEN [m EXCEPT !.resultsByAction[q.tab] = ResultData(q, rid),
                 !.availableSheetsByAction[q.tab] = TRUE,
                 !.selectedMappingByAction[q.tab] =
                    IF q.tab = "generate" THEN "first"
                    ELSE m.selectedMappingByAction[q.tab]]
  ELSE IF q.kind = "list-fields" /\ ~ok THEN [m EXCEPT !.error = "Failed to list fields"]
  ELSE [m EXCEPT !.resultsByAction[q.tab] = ResultData(q, rid)]

\* lines 226-229, 270-272, 301-303: the finally of the handler
Finally(m, q) ==
  IF q.kind = "upload"
  THEN [m EXCEPT !.isProcessing = FALSE, !.abortControllerRef = 0]
  ELSE [m EXCEPT !.isProcessing = FALSE]

\* the response to a request in flight arrives, good or not
Respond ==
  \E rid \in DOMAIN requests, ok \in BOOLEAN :
    /\ requests[rid].inFlight
    /\ mapper' = RefsSynced(mapper,
                   Finally(Responded(mapper, requests[rid], rid, ok), requests[rid]))
    /\ requests' = [requests EXCEPT ![rid].inFlight = FALSE]
    /\ UNCHANGED <<fixVars, utilVars, gateVars, putVars, fmtVars>>

\* lines 306-316, from the Clear button, enabled with a result or a file
clearMapper ==
  /\ mapper.resultsByAction[mapper.action] # NoResult \/ mapper.currentFile # ""
  /\ mapper' = RefsSynced(mapper,
                 [mapper EXCEPT !.resultsByAction[mapper.action] = NoResult,
                                !.selectedMappingByAction[mapper.action] = "",
                                !.availableSheetsByAction[mapper.action] = FALSE,
                                !.error = "",
                                !.currentFile = ""])
  /\ UNCHANGED requests
  /\ UNCHANGED <<fixVars, utilVars, gateVars, putVars, fmtVars>>

\* lines 409-416: a click on a tab, blocked while isProcessing is true
setAction ==
  /\ ~mapper.isProcessing
  /\ \E a \in ActionTypes \ {mapper.action} :
       mapper' = RefsSynced(mapper, [mapper EXCEPT !.action = a, !.error = ""])
  /\ UNCHANGED requests
  /\ UNCHANGED <<fixVars, utilVars, gateVars, putVars, fmtVars>>

NextMapper ==
  \/ handleFileUpload
  \/ handleCancel
  \/ handleListFields
  \/ handleValidate
  \/ Respond
  \/ clearMapper
  \/ setAction

InitMapper ==
  /\ MapIdle
  /\ FmtIdle
  /\ FixIdle
  /\ UtilIdle
  /\ GateIdle
  /\ PutIdle

SpecMapper == InitMapper /\ [][NextMapper]_vars

(***************************************************************************)
(* Properties                                                              *)
(***************************************************************************)
Done == pc = "done"

\* C1: every result of fixJson has the success shape (no errors, formatted is
\* the 2-space serialization of data) or the failure shape (data null,
\* formatted empty, exactly one error); an object that is opened and never
\* closed yields the failure shape.
ResultShape ==
  Done =>
    /\ \/ /\ result.success
          /\ result.errors = <<>>
          /\ result.formatted = JSONstringify(result.data, 2)
       \/ /\ ~result.success
          /\ result.data = JNull
          /\ result.formatted = ""
          /\ Len(result.errors) = 1
    /\ (startsWith(trim(input), "{") /\ "}" \notin CharsOf(input)) => ~result.success

\* an object opened with "{" and never closed has been given and has failed
ResultShapeWitness ==
  /\ Done
  /\ input = "{not json at all"
  /\ ~result.success
  /\ result.errors = <<ParseErrorMessage>>

Idempotent ==
  (Done /\ calls > 1) =>
    /\ result.success
    /\ result.formatted = prior.formatted
    /\ result.fixes = <<>>

\* the second call was given the output of a call that repaired and revived
IdempotentWitness ==
  /\ Done
  /\ calls = 2
  /\ Len(prior.fixes) >= 2
  /\ "Recursively parsed nested JSON/Python strings" \in {prior.fixes[k] : k \in 1..Len(prior.fixes)}
  /\ result.formatted = prior.formatted

\* the text without its comments, by a scan that tracks the mode of the
\* cursor: out is the text kept so far
RECURSIVE Uncommented(_, _, _, _)
Uncommented(text, i, mode, out) ==
  LET c == At(text, i)
      n == At(text, i + 1)
  IN IF i > Len(text) THEN [out |-> out, mode |-> mode]
     ELSE CASE mode = "Normal" /\ c = "\"" -> Uncommented(text, i + 1, "InDoubleQuotedString", out \o c)
            [] mode = "Normal" /\ c = "'" -> Uncommented(text, i + 1, "InSingleQuotedString", out \o c)
            [] mode = "Normal" /\ c = "/" /\ n = "/" -> Uncommented(text, i + 2, "InLineComment", out)
            [] mode = "Normal" /\ c = "/" /\ n = "*" -> Uncommented(text, i + 2, "InBlockComment", out)
            [] mode = "Normal" /\ c \notin {"\"", "'"} /\ ~(c = "/" /\ n \in {"/", "*"}) ->
                 Uncommented(text, i + 1, mode, out \o c)
            [] mode \in {"InDoubleQuotedString", "InSingleQuotedString"} /\ c = "\\" ->
                 Uncommented(text, i + 2, mode, out \o c \o n)
            [] mode = "InDoubleQuotedString" /\ c = "\"" -> Uncommented(text, i + 1, "Normal", out \o c)
            [] mode = "InSingleQuotedString" /\ c = "'" -> Uncommented(text, i + 1, "Normal", out \o c)
            [] mode = "InLineComment" /\ c = "\n" -> Uncommented(text, i + 1, "Normal", out \o c)
            [] mode = "InBlockComment" /\ c = "*" /\ n = "/" -> Uncommented(text, i + 2, "Normal", out)
            [] mode \in {"InLineComment", "InBlockComment"} -> Uncommented(text, i + 1, mode, out)
            [] OTHER -> Uncommented(text, i + 1, mode, out \o c)

\* C7: removeComments removes the line comments and the closed block comments
\* that lie outside strings and nothing else, so a "//" or "/* */" inside a
\* double- or single-quoted string stays as it is.
CommentsStringAware ==
  pc = "python" =>
    LET ref == Uncommented(beforeComments, 1, "Normal", "")
    IN ref.mode # "InBlockComment" => processed = ref.out

\* comments were removed around strings that hold "//" and "/* */"
CommentsStringAwareWitness ==
  /\ pc = "python"
  /\ beforeComments = "{\"a\": \"x//y\", // c\n \"b\": '/* z */' /* q */}"
  /\ processed = "{\"a\": \"x//y\", \n \"b\": '/* z */' }"
  /\ fixes = <<"Removed JavaScript comments">>

Labels(fs) == {fs[k] : k \in 1..Len(fs)}

\* C2: for an object whose field is a string holding a Python-dict or JSON
\* object literal, fixJson succeeds and the field of data is the parsed
\* object, not the string.
NestedInputs ==
  { "{\"extractor_request\": \"{'key': 'value'}\"}",
    "{'extractor_request': \"{'key': 'value'}\"}" }

NestedRevived ==
  (Done /\ calls = 1 /\ input \in NestedInputs) =>
    /\ result.success
    /\ result.data =
         JObj(<<Member("extractor_request", JObj(<<Member("key", JStr("value"))>>))>>)

\* C5: in a single-quoted string an apostrophe closes the string only before
\* white space, "," "]" "}" ":" "[" or the end of the text, so
\* {'name': 'O'Brien'} becomes the object {name: "O'Brien"}.
ApostropheLookahead ==
  (Done /\ calls = 1 /\ input = "{'name': 'O'Brien'}") =>
    /\ result.success
    /\ result.data = JObj(<<Member("name", JStr("O'Brien"))>>)

\* C6: an object with bare identifiers as keys and as values is repaired:
\* each key maps to the value's identifier as a string.
BareWordsQuoted ==
  (Done /\ calls = 1 /\ input = "{a: b}") =>
    /\ result.success
    /\ result.data = JObj(<<Member("a", JStr("b"))>>)

\* the double-quoted string literals of a text, in order
RECURSIVE StringLiterals(_, _)
StringLiterals(text, i) ==
  IF i > Len(text) THEN <<>>
  ELSE IF At(text, i) = "\""
  THEN LET r == readDoubleQuotedString(text, i)
       IN <<r.str>> \o StringLiterals(text, r.i)
  ELSE StringLiterals(text, i + 1)

\* a is b with some elements left out
RECURSIVE IsSubsequence(_, _)
IsSubsequence(a, b) ==
  IF Len(a) = 0 THEN TRUE
  ELSE IF Len(b) = 0 THEN FALSE
  ELSE IF Head(a) = Head(b) THEN IsSubsequence(Tail(a), Tail(b))
  ELSE IsSubsequence(a, Tail(b))

\* C8: fixTrailingCommas and fixUnquotedKeys leave every double-quoted string
\* literal of their input as it is: each is still there, in order, after
\* both rewrites.
RewritesKeepStrings ==
  pc = "parse" =>
    IsSubsequence(StringLiterals(beforeTrailing, 1), StringLiterals(processed, 1))

PyValue(lit) ==
  CASE lit = "True" -> JBool(TRUE)
    [] lit = "False" -> JBool(FALSE)
    [] lit = "None" -> JNull

\* C9: an object with single-quoted keys and the values True, False, None is
\* converted: true, false, null under the same keys, and fixes holds the
\* Python-conversion label.
PythonConverted ==
  \A k \in PyKeys, lit \in PyLiterals :
    (Done /\ calls = 1 /\ input = PyObject(PyEscaped(k), lit)) =>
      /\ result.success
      /\ result.data = JObj(<<Member(k, PyValue(lit))>>)
      /\ "Converted Python dict syntax to JSON" \in Labels(result.fixes)

\* C10: for a text that is valid JSON but for trailing commas, fixJson
\* succeeds, data is the value of the text without those commas, and fixes
\* holds "Removed trailing commas".
TrailingCommasRemoved ==
  \A f \in TrailingFrames, body \in StringBodies :
    (Done /\ calls = 1 /\ input = WithTrailing(f, body)) =>
      /\ result.success
      /\ result.data = JSONparse(WithoutTrailing(f, body)).v
      /\ "Removed trailing commas" \in Labels(result.fixes)

\* C11: two adjacent elements separated only by white space with a newline
\* get a comma between them, so an array of two objects on separate lines
\* without a comma is parsed.
MissingCommasInserted ==
  (Done /\ calls = 1 /\ input = "[{\"a\": 1}\n{\"b\": 2}]") =>
    /\ result.success
    /\ result.data = JArr(<<JObj(<<Member("a", JNum(1, 0))>>),
                            JObj(<<Member("b", JNum(2, 0))>>)>>)

\* the labels of the stages in the order the stages run
StageLabels ==
  << "Removed JavaScript comments",
     "Converted Python dict syntax to JSON",
     "Removed trailing commas",
     "Added quotes to unquoted keys",
     "Recursively parsed nested JSON/Python strings" >>

\* the k-th stage returned something else than it was given
StageChanged(k) ==
  CASE k = 1 -> beforePython # beforeComments
    [] k = 2 -> beforeTrailing # beforePython
    [] k = 3 -> beforeKeys # beforeTrailing
    [] k = 4 -> processed # beforeKeys
    [] k = 5 -> result.success /\ result.data # JSONparse(processed).v

ChangedStages == SelectSeq(<<1, 2, 3, 4, 5>>, StageChanged)

\* C12: fixes holds, in the order the stages ran, the label of each stage
\* whose output differed from its input, each once, and no other label.
FixesTrail ==
  Done =>
    IF JSONparse(trim(input)).ok
    THEN result.fixes = <<>>
    ELSE result.fixes = [j \in 1..Len(ChangedStages) |-> StageLabels[ChangedStages[j]]]

\* a call in which every stage changed something has ended
FixesTrailWitness ==
  /\ Done
  /\ input = "{a: 'x', // c\n \"n\": \"[1]\", }"
  /\ result.success
  /\ result.fixes = StageLabels

\* every inner scan that a stage starts at a position of the text ends
\* beyond where it started and no further than the end of the text
ScansAdvance(text) ==
  \A i \in 1..Len(text) :
    /\ At(text, i) = "\"" =>
         readDoubleQuotedString(text, i).i \in (i + 1)..(Len(text) + 1)
    /\ At(text, i) = "'" =>
         /\ readSingleQuotedString(text, i).i \in (i + 1)..(Len(text) + 1)
         /\ SkipSingleLoop(text, i + 1, "").i \in (i + 1)..(Len(text) + 1)
    /\ LineCommentEnd(text, i) \in i..(Len(text) + 1)
    /\ BlockCommentEnd(text, i) \in i..(Len(text) + 1)

\* C13: whatever the text (also one that ends inside a string, a comment or
\* an escape), the scans of removeComments and convertPythonToJson advance
\* and stay within the text, so the stages return, and the call ends in a
\* success or in a failure that carries the parse error in errors.
Totality ==
  /\ ScansAdvance(beforeComments)
  /\ ScansAdvance(beforePython)
  /\ Done => (result.success \/ result.errors = <<ParseErrorMessage>>)

\* a text that ends in an unterminated string and a dangling backslash got
\* its result
TotalityWitness ==
  /\ Done
  /\ input = "\"'\\"
  /\ ~result.success
  /\ result.errors = <<ParseErrorMessage>>

\* the depths with which recursivelyParseStrings is entered during the call
\* on value at depth
RECURSIVE EnteredDepths(_, _)
EnteredDepths(value, depth) ==
  {depth} \cup
    IF depth > MaxReviveDepth THEN {}
    ELSE CASE value.t = "arr" ->
                UNION {EnteredDepths(value.items[k], depth + 1) : k \in 1..Len(value.items)}
           [] value.t = "obj" ->
                UNION {EnteredDepths(value.members[k].v, depth + 1) : k \in 1..Len(value.members)}
           [] value.t = "str" ->
                LET trimmed == trim(value.s)
                    whole == tryParseJsonOrPython(trimmed)
                    pm == prefixMatch(trimmed)
                    part == tryParseJsonOrPython(pm.jsonPart)
                IN IF /\ \/ startsWith(trimmed, "{") /\ endsWith(trimmed, "}")
                         \/ startsWith(trimmed, "[") /\ endsWith(trimmed, "]")
                      /\ whole # JNull
                   THEN EnteredDepths(whole, depth + 1)
                   ELSE IF pm.matched /\ part # JNull
                   THEN EnteredDepths(part, depth + 1)
                   ELSE {}
           [] OTHER -> {}

\* leaf inside n arrays
RECURSIVE Nested(_, _)
Nested(n, leaf) == IF n = 0 THEN leaf ELSE JArr(<<Nested(n - 1, leaf)>>)

\* what the claim makes of the deep leaves at depth n: the leaf's array is
\* entered at depth n + 1 and the string inside it is reached at depth n + 2
DeepValue(leaf, n) ==
  IF n > 10 THEN JSONparse(leaf).v
  ELSE IF n + 2 > 10 \/ leaf = "\"[1]\"" THEN JSONparse(JSONparse(leaf).v.s).v
  ELSE JArr(<<JArr(<<JNum(2, 0)>>)>>)

\* C14: the reviver is never entered with a depth greater than 11 and returns
\* what it reaches at a depth greater than 10 as it is: a string leaf there
\* stays a string, and the call still succeeds.
DepthBounded ==
  (Done /\ calls = 1 /\ result.success /\ ~JSONparse(trim(input)).ok) =>
    /\ \A d \in EnteredDepths(JSONparse(processed).v, 0) : d <= 11
    /\ recursivelyParseStrings(JSONparse(processed).v, 11) = JSONparse(processed).v
    /\ \A n \in 1..MaxNesting, leaf \in DeepLeaves :
         input = DeepText(n, leaf) => result.data = Nested(n, DeepValue(leaf, n))

\* a string leaf inside eleven arrays was left a string, one inside ten was not
DepthBoundedWitness ==
  /\ Done
  /\ calls = 1
  /\ input = DeepText(11, "\"[1]\"")
  /\ result.data = Nested(11, JStr("[1]"))
  /\ result.fixes = <<"Removed trailing commas">>

\* C15 as stated: minifyJson and formatJson return an unparseable text as it
\* is and otherwise a serialization that parses to the value of the text,
\* so formatJson(minifyJson(t), n) = formatJson(t, n).
SerializationsKeepValue ==
  /\ "minify" \in called =>
       IF JSONparse(given).ok
       THEN /\ JSONparse(minifiedText).ok
            /\ JSONparse(minifiedText).v = JSONparse(given).v
       ELSE minifiedText = given
  /\ "format" \in called =>
       IF JSONparse(given).ok
       THEN /\ JSONparse(formattedText).ok
            /\ JSONparse(formattedText).v = JSONparse(given).v
       ELSE formattedText = given
  /\ {"format", "reformat"} \subseteq called => reformattedText = formattedText

\* the value with null for each Infinity
RECURSIVE Nulled(_)
Nulled(v) ==
  CASE v.t = "inf" -> JNull
    [] v.t = "arr" -> JArr([k \in 1..Len(v.items) |-> Nulled(v.items[k])])
    [] v.t = "obj" ->
         JObj([k \in 1..Len(v.members) |-> Member(v.members[k].k, Nulled(v.members[k].v))])
    [] OTHER -> v

\* C15 as amended: the serialization parses to the value of the text with
\* null in place of each number beyond the range of a double.
SerializationsKeepFiniteValue ==
  /\ "minify" \in called =>
       IF JSONparse(given).ok
       THEN /\ JSONparse(minifiedText).ok
            /\ JSONparse(minifiedText).v = Nulled(JSONparse(given).v)
       ELSE minifiedText = given
  /\ "format" \in called =>
       IF JSONparse(given).ok
       THEN /\ JSONparse(formattedText).ok
            /\ JSONparse(formattedText).v = Nulled(JSONparse(given).v)
       ELSE formattedText = given
  /\ {"format", "reformat"} \subseteq called => reformattedText = formattedText

\* a text with white space was minified, formatted and formatted again
SerializationsWitness ==
  /\ called = {"minify", "format", "reformat"}
  /\ given = " [1.50, \"a b\" ] "
  /\ indentWidth = 2
  /\ minifiedText = "[1.5,\"a b\"]"
  /\ formattedText = "[\n  1.5,\n  \"a b\"\n]"
  /\ reformattedText = formattedText

\* the part of an address after its last "@"
DomainOf(email) ==
  IF PlacesOf(email, "@") = {} THEN ""
  ELSE From(email, (CHOOSE i \in PlacesOf(email, "@") : \A j \in PlacesOf(email, "@") : j <= i) + 1)

\* C16: a request to a route that is not public proceeds only if the session
\* is authenticated and its email belongs to the domain siftt.ai.
GateAllowsOnlyDomain ==
  (response = "next" /\ ~isPublicRoute(request.route)) =>
    /\ request.authenticated
    /\ DomainOf(request.email) = "siftt.ai"

\* the fields of a mapping: its entries other than sheet_name
FieldsOf(mapping) == SelectSeq(Entries(mapping), LAMBDA e : e.k # "sheet_name")

\* how many entries errors must hold at least: one for a missing sheet_name,
\* one for each field that is not a dictionary, one for each dictionary
\* whose cells is not a list
ErrorsDue(mapping) ==
  (IF ~HasProperty(mapping, "sheet_name") THEN 1 ELSE 0)
  + Cardinality({k \in 1..Len(FieldsOf(mapping)) : FieldsOf(mapping)[k].v.t # "obj"})
  + Cardinality({k \in 1..Len(FieldsOf(mapping)) :
                   /\ FieldsOf(mapping)[k].v.t = "obj"
                   /\ HasProperty(FieldsOf(mapping)[k].v, "cells")
                   /\ Property(FieldsOf(mapping)[k].v, "cells").t # "arr"})

\* the fields that lack a required property
Lacking(mapping) ==
  {k \in 1..Len(FieldsOf(mapping)) :
     \E p \in 1..Len(RequiredProps) : ~HasProperty(FieldsOf(mapping)[k].v, RequiredProps[p])}

\* the key stands between apostrophes in one of the messages
Names(messages, key) ==
  \E m \in 1..Len(messages) :
    SubSeq(messages[m], 1, Len(key) + 8) = "Field '" \o key \o "'"

\* C17: the validation answers success exactly when errors is empty, puts an
\* entry in errors for a missing sheet_name, for each field that is not a
\* dictionary and for each cells that is not a list, reports every field
\* that lacks a required property, and counts the keys other than sheet_name.
MappingValidated ==
  (reply # JNull /\ reply.status = 200) =>
    LET mapping == Property(putBody, "mapping")
    IN /\ reply.success <=> (reply.errors = <<>>)
       /\ Len(reply.errors) >= ErrorsDue(mapping)
       /\ \A k \in Lacking(mapping) :
            \/ Names(reply.errors, FieldsOf(mapping)[k].k)
            \/ Names(reply.warnings, FieldsOf(mapping)[k].k)
       /\ reply.fieldCount = Len(FieldsOf(mapping))

\* whether fixJson succeeds on a text: as it is, or after the four stages
FixJsonSucceeds(s) ==
  \/ JSONparse(trim(s)).ok
  \/ JSONparse(fixUnquotedKeys(fixTrailingCommas(
                 convertPythonToJson(removeComments(trim(s)))))).ok

\* the strings at the leaves of a value
RECURSIVE StringLeaves(_)
StringLeaves(v) ==
  CASE v.t = "str" -> {v.s}
    [] v.t = "arr" -> UNION {StringLeaves(v.items[k]) : k \in 1..Len(v.items)}
    [] v.t = "obj" -> UNION {StringLeaves(v.members[k].v) : k \in 1..Len(v.members)}
    [] OTHER -> {}

\* C18: after revival no string leaf is left that is delimited by braces or
\* brackets and that fixJson would parse (the deep texts, whose leaves lie
\* beyond the depth cap, aside).
RevivedWheneverRepairable ==
  (Done /\ calls = 1 /\ result.success /\ ~JSONparse(trim(input)).ok /\ input \notin DeepTexts) =>
    \A leaf \in StringLeaves(result.data) :
      ~ /\ \/ startsWith(trim(leaf), "{") /\ endsWith(trim(leaf), "}")
           \/ startsWith(trim(leaf), "[") /\ endsWith(trim(leaf), "]")
        /\ FixJsonSucceeds(leaf)

\* C19: when a block comment that opens outside any string is not closed,
\* removeComments removes everything from its opening to the end of the text.
UnterminatedCommentRemoved ==
  (pc = "python" /\ Uncommented(beforeComments, 1, "Normal", "").mode = "InBlockComment") =>
    processed = Uncommented(beforeComments, 1, "Normal", "").out

\* C20: None, True and False next to an identifier character, before or
\* after, are not replaced: convertPythonToJson leaves such a text as it is.
LiteralsWordBounded ==
  (pc = "trailing" /\ beforePython \in BoundaryTexts) => processed = beforePython

\* how many backslashes stand in a row right before position i
RECURSIVE BackslashRun(_, _)
BackslashRun(text, i) ==
  IF i >= 1 /\ At(text, i) = "\\" THEN 1 + BackslashRun(text, i - 1) ELSE 0

\* the first quote after start with an even number of backslashes before it,
\* or the position past the end when there is none
Terminator(text, start, quote) ==
  LET closers == {j \in (start + 1)..Len(text) :
                    At(text, j) = quote /\ BackslashRun(text, j - 1) % 2 = 0}
  IN IF closers = {} THEN Len(text) + 1
     ELSE CHOOSE j \in closers : \A k \in closers : j <= k

\* the position after the terminator, within the text
AfterTerminator(text, start, quote) ==
  IF Terminator(text, start, quote) > Len(text) THEN Len(text) + 1
  ELSE Terminator(text, start, quote) + 1

\* C21: each string scan consumes a backslash and the character after it as
\* one unit: started at a quote, it ends at the first such quote that has an
\* even number of backslashes before it (or at the end of the text), in
\* readDoubleQuotedString, in readSingleQuotedString and in the skipping of
\* single-quoted strings by removeComments.
EscapePairsAtomic ==
  /\ \A i \in 1..Len(beforeComments) :
       /\ At(beforeComments, i) = "\"" =>
            readDoubleQuotedString(beforeComments, i).i
              = AfterTerminator(beforeComments, i, "\"")
       /\ At(beforeComments, i) = "'" =>
            SkipSingleLoop(beforeComments, i + 1, "").i
              = Terminator(beforeComments, i, "'")
  /\ \A i \in 1..Len(beforePython) :
       /\ At(beforePython, i) = "\"" =>
            readDoubleQuotedString(beforePython, i).i
              = AfterTerminator(beforePython, i, "\"")
       /\ At(beforePython, i) = "'" =>
            readSingleQuotedString(beforePython, i).i
              = AfterTerminator(beforePython, i, "'")

\* no apostrophe of text from position i on stands outside a double-quoted
\* string, the strings being read as JSON reads them
RECURSIVE NoApostropheOutside(_, _, _)
NoApostropheOutside(text, i, inString) ==
  IF i > Len(text) THEN TRUE
  ELSE IF inString
  THEN IF At(text, i) = "\\" THEN NoApostropheOutside(text, i + 2, TRUE)
       ELSE NoApostropheOutside(text, i + 1, At(text, i) # "\"")
  ELSE /\ At(text, i) # "'"
       /\ NoApostropheOutside(text, i + 1, At(text, i) = "\"")

\* C22: what readSingleQuotedString emits for a single-quoted string is a
\* JSON string literal that JSON.parse accepts whole and decodes to the
\* content the scan decoded from the source, and the text convertPythonToJson
\* returns has no apostrophe outside a double-quoted string.
SingleQuotedEmittedAsJson ==
  /\ \A i \in 1..Len(beforePython) :
       At(beforePython, i) = "'" =>
         /\ JSONparse(readSingleQuotedString(beforePython, i).str).ok
         /\ JSONparse(readSingleQuotedString(beforePython, i).str).v
              = JStr(ReadSingleLoop(beforePython, i + 1, "").str)
  /\ pc = "trailing" => NoApostropheOutside(processed, 1, FALSE)

\* a single-quoted string with \x, \u and unknown escapes was decoded, and
\* or one holding a backslash and a double quote was emitted with both escaped
SingleQuotedWitness ==
  /\ pc = "trailing"
  /\ \/ /\ beforePython = "{'a': '\\x41\\u0042\\q'}"
        /\ processed = "{\"a\": \"ABq\"}"
     \/ /\ beforePython = "'\\\\\"'"
        /\ processed = "\"\\\\\\\"\""

\* the strings of a text from position i on, in order, each ending at its
\* terminator: whether it is double-quoted, and its characters
RECURSIVE Lexed(_, _)
Lexed(text, i) ==
  IF i > Len(text) THEN <<>>
  ELSE IF At(text, i) \in {"\"", "'"}
  THEN <<[dq |-> At(text, i) = "\"",
          str |-> Slice(text, i, AfterTerminator(text, i, At(text, i)) - 1)]>>
       \o Lexed(text, AfterTerminator(text, i, At(text, i)))
  ELSE Lexed(text, i + 1)

\* string for string, the double-quoted ones of before stand unchanged in after
CopiedDoubleQuoted(before, after) ==
  /\ Len(after) = Len(before)
  /\ \A k \in 1..Len(before) : before[k].dq => after[k] = before[k]

\* C23: convertPythonToJson copies each double-quoted string of its input
\* byte for byte: the strings of the output are those of the input, one for
\* one, and each double-quoted one is unchanged (no quote conversion, no
\* escape rewriting, no None/True/False substitution inside it).
DoubleQuotedCopied ==
  pc = "trailing" =>
    CopiedDoubleQuoted(Lexed(beforePython, 1), Lexed(processed, 1))

\* the steps of one call, in the order of the code, and the start of a new call
PassOrder ==
  { <<"asIs", "done">>, <<"asIs", "comments">>, <<"comments", "python">>,
    <<"python", "trailing">>, <<"trailing", "keys">>, <<"keys", "parse">>,
    <<"parse", "done">>, <<"done", "asIs">> }

\* C24: one call is one pass: the text stages run once each in the order
\* comments, Python conversion, trailing commas, keys, then one parse; an
\* as-is parse that succeeds ends the call with no stage run; the result
\* (revived data, formatted text) is set only by the step that ends the call,
\* a success exactly when that parse succeeded, and a failed parse ends the
\* call in failure with no stage run again.
OnePass ==
  [][ /\ <<pc, pc'>> \in PassOrder
      /\ (pc = "asIs" /\ JSONparse(trim(input)).ok) =>
           /\ pc' = "done"
           /\ result'.success
           /\ <<beforeComments', beforePython', beforeTrailing', beforeKeys'>>
                = <<"", "", "", "">>
      /\ (pc = "asIs" /\ ~JSONparse(trim(input)).ok) => pc' = "comments"
      /\ (pc \notin {"done", "asIs"} /\ pc' # "done") => result' = Pending
      /\ pc = "parse" =>
           /\ result'.success = JSONparse(processed).ok
           /\ ~result'.success => (result'.formatted = "" /\ result'.data = JNull)
           /\ <<beforeComments', beforePython', beforeTrailing', beforeKeys'>>
                = <<beforeComments, beforePython, beforeTrailing, beforeKeys>>
    ]_vars

\* a call went through all four stages and its one parse failed
OnePassWitness ==
  /\ Done
  /\ ~result.success
  /\ input = "{a: b}"
  /\ beforeKeys = "{a: b}"
  /\ processed = "{\"a\": b}"
  /\ result.fixes = <<"Added quotes to unquoted keys">>

\* the string leaves on which recursivelyParseStrings is entered during the
\* call on value at depth, each with the depth it is entered at
RECURSIVE EnteredLeaves(_, _)
EnteredLeaves(value, depth) ==
  CASE value.t = "str" ->
         {<<value.s, depth>>} \cup
           (IF depth > MaxReviveDepth \/ recursivelyParseStrings(value, depth) = value
            THEN {}
            ELSE IF recursivelyParseStrings(value, depth).t = "obj"
                    /\ prefixMatch(trim(value.s)).matched
                    /\ ~startsWith(trim(value.s), "{")
            THEN EnteredLeaves(tryParseJsonOrPython(prefixMatch(trim(value.s)).jsonPart),
                               depth + 1)
            ELSE EnteredLeaves(tryParseJsonOrPython(trim(value.s)), depth + 1))
    [] value.t = "arr" /\ depth <= MaxReviveDepth ->
         UNION {EnteredLeaves(value.items[k], depth + 1) : k \in 1..Len(value.items)}
    [] value.t = "obj" /\ depth <= MaxReviveDepth ->
         UNION {EnteredLeaves(value.members[k].v, depth + 1) : k \in 1..Len(value.members)}
    [] OTHER -> {}

\* where the first brace or bracket of a leaf stands (0: nowhere)
FirstBracket(leaf) ==
  IF \A b \in 1..Len(leaf) : At(leaf, b) \notin {"{", "["} THEN 0
  ELSE CHOOSE b \in 1..Len(leaf) :
         /\ At(leaf, b) \in {"{", "["}
         /\ \A a \in 1..(b - 1) : At(leaf, a) \notin {"{", "["}

\* where the last character before position b that is no white space stands
RECURSIVE LastInkBefore(_, _)
LastInkBefore(leaf, b) ==
  IF b <= 1 THEN 0
  ELSE IF At(leaf, b - 1) \in JsWs THEN LastInkBefore(leaf, b - 1)
  ELSE b - 1

\* the leaf is '<prefix>: <span>': a non-empty prefix without brace or
\* bracket, a colon, and a span from the first brace or bracket to its
\* closer at the end of the leaf
PrefixColon(leaf) == LastInkBefore(leaf, FirstBracket(leaf))

PrefixOf(leaf) == SubSeq(leaf, 1, PrefixColon(leaf) - 1)

SpanOf(leaf) == From(leaf, FirstBracket(leaf))

IsPrefixed(leaf) ==
  /\ FirstBracket(leaf) > 0
  /\ FirstBracket(leaf) < Len(leaf)
  /\ PrefixColon(leaf) >= 2
  /\ At(leaf, PrefixColon(leaf)) = ":"
  /\ \/ At(leaf, FirstBracket(leaf)) = "{" /\ At(leaf, Len(leaf)) = "}"
     \/ At(leaf, FirstBracket(leaf)) = "[" /\ At(leaf, Len(leaf)) = "]"

\* what the claim makes of a prefixed leaf entered at depth
Wrapped(leaf, depth) ==
  IF tryParseJsonOrPython(SpanOf(leaf)) # JNull
  THEN JObj(<<Member("_prefix", JStr(trim(PrefixOf(leaf)))),
              Member("_data",
                     recursivelyParseStrings(tryParseJsonOrPython(SpanOf(leaf)), depth + 1))>>)
  ELSE JStr(leaf)

\* the calls that went through the stages and parsed
Repaired == Done /\ calls = 1 /\ result.success /\ ~JSONparse(trim(input)).ok

IndentClickShown ==
  (lastEvent.name = "format" /\ ~effectDue) =>
    formatter.output = JSONstringify(fixJson(formatter.input).data, lastEvent.indent)

\* C30: once the effects have run, a blank input shows an empty output, valid,
\* with no errors and no fixes; an output is shown only for a non-blank input
\* that is valid; and an invalid input shows an empty output with errors.
FormatterSettled ==
  ~effectDue =>
    /\ trim(formatter.input) = "" =>
         /\ formatter.output = ""
         /\ formatter.isValid
         /\ formatter.errors = <<>>
         /\ formatter.fixes = <<>>
    /\ formatter.output # "" => (trim(formatter.input) # "" /\ formatter.isValid)
    /\ ~formatter.isValid => (formatter.output = "" /\ formatter.errors # <<>>)

\* a minified valid input was replaced by one that does not parse, and the
\* effect has run
FormatterSettledWitness ==
  /\ ~effectDue
  /\ formatter.input = "{a: b}"
  /\ formatter.isMinified
  /\ ~formatter.isValid
  /\ formatter.output = ""
  /\ formatter.errors = <<ParseErrorMessage>>

\* C27: while an upload is in flight and was not cancelled, isProcessing is
\* true and abortControllerRef holds the controller of that upload.
UploadInFlightGuarded ==
  \A rid \in DOMAIN requests :
    (requests[rid].kind = "upload" /\ requests[rid].inFlight /\ ~requests[rid].cancelled) =>
      /\ mapper.isProcessing
      /\ mapper.abortControllerRef = rid

\* C28: when the response of a request that was in flight at a Cancel is
\* handled, no result is stored and the error state is left as it is.
CancelledResponsesDropped ==
  [][ \A rid \in DOMAIN requests :
        (requests[rid].cancelled /\ requests[rid].inFlight /\ ~requests'[rid].inFlight) =>
          /\ mapper'.resultsByAction = mapper.resultsByAction
          /\ mapper'.error = mapper.error
    ]_vars

\* C29: when an upload starts, an item is put in front of history exactly
\* when the selected action has a result, and the item holds that result and
\* that action's selected mapping.
UploadArchivesCurrent ==
  [][ (Len(requests') > Len(requests) /\ requests'[Len(requests')].kind = "upload") =>
        /\ (Len(mapper'.history) = Len(mapper.history) + 1)
             <=> (mapper.resultsByAction[mapper.action] # NoResult)
        /\ (Len(mapper'.history) > Len(mapper.history)) =>
             /\ mapper'.history[1].result = mapper.resultsByAction[mapper.action]
             /\ mapper'.history[1].selectedMapping
                  = mapper.selectedMappingByAction[mapper.action]
    ]_vars

====
